---- MODULE Spec2Model ----
(***************************************************************************)
(* A model of go-blob-encryption (blobcrypt): the blob codec (ComputeKey,  *)
(* CipherStream, Writer.Encrypt, CheckKey, NewReader, Reader.Decrypt,      *)
(* TailExcludingReader, DecryptAndCheckKey), the Manifest operations       *)
(* (Diff, Commit, GarbageCollectable, Save, Load), the backup driver       *)
(* (BackupMain with its worker pool and its sealing step) and the restore  *)
(* driver's opening of a sealed manifest.                                  *)
(*                                                                         *)
(* Bytes are bits (0 or 1); AES-CTR is an XOR with a keystream that        *)
(* depends on the key and on the offset in the stream; SHA-256 and         *)
(* HMAC-SHA-512 are injective encodings of their inputs (no collisions).   *)
(***************************************************************************)
EXTENDS Integers, Sequences, FiniteSets, TLC

\* ------------------------------------------------------------------ bounds
\* Longest plaintext, in bytes.
MaxLen == 4
\* Longest convergence secret, in bytes.
MaxSecretLen == 1

\* cipherstream.go: the size of one buffer (16384 in the source), scaled down
\* so that a plaintext of MaxLen bytes spans several buffers.
cipherStreamBufferSize == 2
\* The length of the trailer (sha512.Size, 64 in the source), scaled down.
HMACSize == 2
\* How many reads of a reader may return no byte and no error.
MaxStalls == 1

\* ------------------------------------------------------- program constants
\* cipherstream.go: three round-robin buffers per stream.
cipherStreamBufferCount == 3
\* sha256.Size
KeySize == 32
\* Longest plaintext of the sources CheckKey is given.
MaxCheckLen == 2

Byte == 0 .. 1
Nil == "nil"
EOF == "EOF"
HMACInvalid == "HMAC Invalid"
ReadError == "read error"
WriteError == "write error"

Min(a, b) == IF a < b THEN a ELSE b

RECURSIVE Pow2(_)
Pow2(n) == IF n = 0 THEN 1 ELSE 2 * Pow2(n - 1)

\* All byte strings of length 0 .. n.
BytesUpTo(n) == UNION {[1 .. k -> Byte] : k \in 0 .. n}

\* ------------------------------------------------------------- primitives
\* An injective code of a byte string (bijective base-2 numeration): the
\* collision-free idealisation of a hash of the string.
RECURSIVE Enc(_)
Enc(s) == IF s = <<>> THEN 0 ELSE 2 * Enc(SubSeq(s, 1, Len(s) - 1)) + s[Len(s)] + 1

\* sha256 over a byte string: a 32-byte value identified by the string.
Sha256Sum(s) == [size |-> KeySize, id |-> Enc(s)]

\* utils.go shaSlice256, applied to a 32-byte value: another 32-byte value.
shaSlice256(k) == [size |-> KeySize, id |-> k.id + 1]

\* One more than the largest code of a message the model authenticates.
MsgSpace == Pow2(MaxLen + 2)

\* hmac.New(sha512.New, hmacKey) over msg, then Sum: 64 bytes, each of which
\* identifies (hmacKey, msg) and its own position. The values lie above Byte.
HmacSum(hmacKey, msg) ==
    [j \in 1 .. HMACSize |->
        2 + (hmacKey.id * MsgSpace + Enc(msg)) * HMACSize + (j - 1)]

\* hmac.Equal / subtle.ConstantTimeCompare: false when the lengths differ.
HmacEqual(a, b) == Len(a) = Len(b) /\ a = b

\* The AES-256-CTR keystream byte at offset n under key (the IV is a function
\* of the key).
KeyStream(key, n) == (key.id + ((n * (n + 1)) \div 2)) % 2

Xor(a, b) == (a + b) % 2

\* cipher.Stream.XORKeyStream over s, the stream being at offset pos.
XORKeyStream(key, pos, s) ==
    [j \in 1 .. Len(s) |-> Xor(s[j], KeyStream(key, pos + j - 1))]

\* aes.NewCipher accepts keys of 16, 24 or 32 bytes.
AesKeyOK(key) == key.size \in {16, 24, 32}

\* A key that leaves the secret out.
ComputeKeyNoSecret(plain, cs) == Sha256Sum(plain)

\* part_007 ComputeKey: sha256 over cs || plaintext.
ComputeKey(plain, cs) == Sha256Sum(cs \o plain)

\* ---------------------------------------------------------------- sources
\* An io.Reader over data: kind "plain" is a bytes.Reader or a file, "limit" is
\* io.LimitReader(source, n), "ter" is io.TeeReader(TailExcludingReader, mac).
PlainSource(data) ==
    [kind |-> "plain", data |-> data, pos |-> 0, n |-> 0, tail |-> <<>>, tee |-> <<>>]
LimitSource(data, n) ==
    [kind |-> "limit", data |-> data, pos |-> 0, n |-> n, tail |-> <<>>, tee |-> <<>>]
TerSource(data) ==
    [kind |-> "ter", data |-> data, pos |-> 0, n |-> 0, tail |-> <<>>, tee |-> <<>>]
\* An io.Reader of which only the contract is known, over data; n is the number
\* of reads it may still answer with no byte and no error.
AnySource(data) ==
    [kind |-> "any", data |-> data, pos |-> 0, n |-> MaxStalls, tail |-> <<>>,
     tee |-> <<>>]
NoSource == PlainSource(<<>>)

\* Read(p) with len(p) = max on a reader over data at pos: every outcome the
\* io.Reader contract allows with at least one byte while bytes remain (any
\* positive count up to max, the last bytes alone or together with EOF), and
\* (0, EOF) at the end.
PlainRead(s, max) ==
    LET rem == Len(s.data) - s.pos
        Got(k, e) == [l |-> k, err |-> e,
                      bytes |-> SubSeq(s.data, s.pos + 1, s.pos + k),
                      src |-> [s EXCEPT !.pos = s.pos + k]]
    IN  IF rem = 0
        THEN {Got(0, EOF)}
        ELSE {Got(k, Nil) : k \in 1 .. Min(max, rem)}
             \cup (IF rem <= max THEN {Got(rem, EOF)} ELSE {})

\* io.LimitedReader.Read: EOF once N <= 0, else the underlying read cut to N.
LimitRead(s, max) ==
    IF s.n <= 0
    THEN {[l |-> 0, err |-> EOF, bytes |-> <<>>, src |-> s]}
    ELSE {[r EXCEPT !.src = [r.src EXCEPT !.n = s.n - r.l]] :
            r \in PlainRead(s, Min(max, s.n))}

\* A TailExcludingReader that hands out what it was to keep back.
TailReadNoReserve(s, max, tailSize) ==
    LET readSize == max + tailSize - Len(s.tail)
        got == Min(readSize, Len(s.data) - s.pos)
        tail1 == s.tail \o SubSeq(s.data, s.pos + 1, s.pos + got)
        err == IF got < readSize THEN EOF ELSE Nil
        outLen == Len(tail1)
        k == Min(max, outLen)
    IN  IF outLen > 0
        THEN {[l |-> k, err |-> Nil, bytes |-> SubSeq(tail1, 1, k),
               src |-> [s EXCEPT !.pos = s.pos + got,
                                 !.tail = SubSeq(tail1, k + 1, Len(tail1)),
                                 !.tee = s.tee \o SubSeq(tail1, 1, k)]]}
        ELSE {[l |-> 0, err |-> err, bytes |-> <<>>,
               src |-> [s EXCEPT !.pos = s.pos + got, !.tail = tail1]]}

\* reader.go 240-264, TailExcludingReader.Read with len(into) = max: io.CopyN
\* tops the tail buffer up to len(into) + tailSize bytes (fewer at the end of
\* the source, and then its error is EOF), whatever is above tailSize is handed
\* out, at most len(into) bytes; tee is what was handed out so far.
TailRead(s, max, tailSize) ==
    LET readSize == max + tailSize - Len(s.tail)
        got == Min(readSize, Len(s.data) - s.pos)
        tail1 == s.tail \o SubSeq(s.data, s.pos + 1, s.pos + got)
        err == IF got < readSize THEN EOF ELSE Nil
        outLen == Len(tail1) - tailSize
        k == Min(max, outLen)
    IN  IF outLen > 0
        THEN {[l |-> k, err |-> Nil, bytes |-> SubSeq(tail1, 1, k),
               src |-> [s EXCEPT !.pos = s.pos + got,
                                 !.tail = SubSeq(tail1, k + 1, Len(tail1)),
                                 !.tee = s.tee \o SubSeq(tail1, 1, k)]]}
        ELSE {[l |-> 0, err |-> err, bytes |-> <<>>,
               src |-> [s EXCEPT !.pos = s.pos + got, !.tail = tail1]]}

\* reader.go 278-281: the TailExcludingReader of DecryptAndCheckKey, with
\* tailSize HMACSize, under io.TeeReader into the mac.
TailExcludingRead(s, max) == TailRead(s, max, HMACSize)

\* Read(p) on a reader of which only the io.Reader contract is known: any
\* count of bytes up to max and up to what remains, with no error, with EOF
\* when they are the last, or with an error of the reader; no byte and no
\* error ("nothing happened") while the allowance lasts.
AnyRead(s, max) ==
    LET rem == Len(s.data) - s.pos
        Got(k, e) == [l |-> k, err |-> e,
                      bytes |-> SubSeq(s.data, s.pos + 1, s.pos + k),
                      src |-> [s EXCEPT !.pos = s.pos + k]]
    IN  {Got(k, Nil) : k \in 1 .. Min(max, rem)}
        \cup {Got(k, ReadError) : k \in 0 .. Min(max, rem)}
        \cup (IF rem <= max THEN {Got(rem, EOF)} ELSE {})
        \cup (IF s.n > 0
              THEN {[l |-> 0, err |-> Nil, bytes |-> <<>>,
                     src |-> [s EXCEPT !.n = s.n - 1]]}
              ELSE {})

SourceRead(s, max) ==
    CASE s.kind = "plain" -> PlainRead(s, max)
      [] s.kind = "any" -> AnyRead(s, max)
      [] s.kind = "limit" -> LimitRead(s, max)
      [] s.kind = "ter" -> TailExcludingRead(s, max)

\* ------------------------------------------------------------------ state
VARIABLES
    pc,         \* where the caller of the codec is
    plaintext,  \* the plaintext p
    secret,     \* the convergence secret cs
    key,        \* ComputeKey(p, cs)
    src,        \* CipherStream.Source
    bufs,       \* the producer's buffers: index -> bytes
    i,          \* the producer's loop counter
    ppc,        \* the producer goroutine: idle, read, xor, send, done
    rd,         \* the producer's last read: [l, err]
    ctrPos,     \* bytes consumed from the CTR keystream
    channel,    \* slices in the channel, each [buf, len]
    closed,     \* close(channel) was called
    ctxDone,    \* the context was cancelled
    csError,    \* CipherStream.Error
    cpc,        \* the consumer loop: idle, recv, mac, write, after
    held,       \* the slice the consumer received last
    macMsg,     \* bytes written to the mac by Encrypt
    out,        \* bytes written to the output of the running call
    splits,     \* per finished Encrypt run, how many reads returned no error
    outs,       \* the outputs of the finished Encrypt runs
    hmacs,      \* the HMACs the finished Encrypt runs returned
    blob,       \* the bytes handed to the reader
    tamper,     \* how blob differs from outs[1]: none, mutate, truncate
    path,       \* reader (NewReader, Decrypt) or dack (DecryptAndCheckKey)
    rdErr,      \* the error the reading side returned
    rdOut,      \* the plaintext handed to the reading side's caller
    rdBuf,      \* DecryptAndCheckKey's buffer after it returned
    \* the Manifest
    manifest,   \* Manifest.Entries: LocalHash -> ManifestEntry
    prior,      \* Manifest.Entries as they were when Diff was called
    prefix,     \* the path given to Diff
    entries,    \* the entries given to Diff
    diff,       \* the ManifestDiff Diff returned
    collectable, \* what GarbageCollectable returned, less what was unlinked
    mpc,        \* the caller of the Manifest: idle, diffed, committed, collected
    \* the backup driver and its surroundings
    tree,       \* the source directory: relative path -> file or NoFile
    edits,      \* how many times the source directory was edited
    store,      \* the output directory: blob name -> blob or NoFile
    disk,       \* the manifest file: Manifest.Entries or NoFile
    runs,       \* how many runs of BackupMain have started
    rpc,        \* where BackupMain is
    results,    \* the ScanResults of the run
    sent,       \* how many diff.Change entries the updates goroutine has sent
    wpc,        \* per worker: idle, stat, open, create, encrypt, exited
    wentry,     \* per worker: the entry it is handling
    wsrc,       \* per worker: the content of the source file it opened
    errs,       \* the non-nil results RunWorkers collected
    hist,       \* what the run has done so far, and how the one before ended
    \* the sealed manifest, the manifest file's text, a second secret
    archive,    \* the tar archive the sealing step writes
    restored,   \* what the restore driver hands to Manifest.Load, and its error
    saved,      \* the lines Manifest.Save wrote
    loaded,     \* the error and the entries of Manifest.Load
    rival,      \* the secret, key and blob of an earlier Encrypt of the plaintext
    \* the parts of the drivers taken alone
    scan,       \* Scanner.Scan: its Secrets, the walk and the function's locals
    ter,        \* a TailExcludingReader, its source and what its reader got
    pool,       \* RunWorkers: the channel, the workers and the results
    mu,         \* the Manifest's mutex, and the goroutines calling the Manifest
    encErr,     \* the error the last call of Writer.Encrypt returned
    rmain,      \* a run of RestoreMain: the manifest file, the manifest, the error
    ck,         \* a call of CheckKey: the source, its position, what was returned
    rdir        \* a directory restore: the entries, the blobs, the destination

streamVars == <<src, bufs, i, ppc, rd, ctrPos, channel, closed, ctxDone, csError,
                cpc, held, macMsg, out>>
codecVars == <<pc, plaintext, secret, key, streamVars, outs, hmacs, splits, blob,
               tamper, path, rdErr, rdOut, rdBuf>>
manifestVars == <<manifest, prior, prefix, entries, diff, collectable, mpc>>
backupVars == <<tree, edits, store, disk, runs, rpc, results, sent, wpc, wentry,
                wsrc, errs, hist>>
driverVars == <<archive, restored, saved, loaded, rival>>
moreVars == <<ck, rdir>>
toolVars == <<scan, ter, pool, mu, encErr, rmain, moreVars>>
extVars == <<driverVars, toolVars>>
vars == <<codecVars, manifestVars, backupVars, extVars>>

NoKey == [size |-> 0, id |-> 0]
NoSlice == [buf |-> 0, len |-> 0]
ZeroBuf == [j \in 1 .. cipherStreamBufferSize |-> 0]
NoRead == [l |-> 0, err |-> Nil]
None == "none"

NoArchive == [written |-> FALSE, Name |-> "", Size |-> 0, PAXRecords |-> <<>>,
              body |-> <<>>, closed |-> FALSE, err |-> Nil]
NoRestore == [called |-> FALSE, err |-> Nil, bytes |-> <<>>, priv |-> 0]
NoFile == [exists |-> FALSE, Header |-> "", lines |-> <<>>]
NoLoad == [called |-> FALSE, err |-> Nil, Entries |-> <<>>]
NoRival == [set |-> FALSE, secret |-> <<>>, key |-> NoKey, blob |-> <<>>]

NoScan ==
    [pc |-> "idle", dir |-> <<>>, dirs |-> {}, walk |-> <<>>,
     Secrets |-> <<>>, files |-> {}, todo |-> <<>>,
     keyDir |-> <<"x00">>, checkSubpaths |-> TRUE, convergenceSecret |-> <<>>,
     allResults |-> <<>>]

NoTer ==
    [pc |-> "idle", src |-> NoSource, tailSize |-> 0, got |-> <<>>, eof |-> FALSE,
     last |-> [into |-> 0, l |-> 0, err |-> Nil], sizes |-> {}]
NoPool ==
    [pc |-> "idle", inputs |-> <<>>, sent |-> 0, closed |-> FALSE,
     wpc |-> <<>>, win |-> <<>>, wval |-> <<>>,
     calls |-> <<>>, mutex |-> 0, results |-> <<>>, returned |-> <<>>,
     opened |-> {}, err |-> Nil]
NoRestoreMain ==
    [pc |-> "idle", file |-> <<>>, inIsDir |-> TRUE, privatekey |-> 0, hmac |-> <<>>,
     header |-> <<>>, tarErr |-> Nil, loads |-> 0, Entries |-> <<>>, err |-> Nil,
     ranged |-> FALSE, decrypted |-> {}]
NoMutex == [holder |-> 0, tpc |-> <<"idle", "idle">>, op |-> <<None, None>>]

\* Nothing sealed, saved or loaded, no earlier Encrypt kept, no scan, reader or
\* pool in use.
NoCheck ==
    [pc |-> "idle", source |-> <<>>, key |-> NoKey, at |-> 0, pos |-> 0,
     offset |-> 0, err |-> Nil]
NoRestoreDir ==
    [pc |-> "idle", entries |-> <<>>, idx |-> 1, dest |-> <<>>, skipped |-> {},
     called |-> {}, restored |-> {}, touched |-> {}, failed |-> 0, err |-> Nil]
MoreIdle ==
    /\ ck = NoCheck
    /\ rdir = NoRestoreDir

ExtIdle ==
    /\ archive = NoArchive
    /\ restored = NoRestore
    /\ saved = NoFile
    /\ loaded = NoLoad
    /\ rival = NoRival
    /\ scan = NoScan
    /\ ter = NoTer
    /\ pool = NoPool
    /\ mu = NoMutex
    /\ encErr = Nil
    /\ MoreIdle
    /\ rmain = NoRestoreMain

\* A channel that holds one slice more than the rotation leaves room for.
ChannelCapUnreserved == cipherStreamBufferCount - 1

\* cipherstream.go: make(chan []byte, cipherStreamBufferCount-2)
ChannelCap == cipherStreamBufferCount - 2

\* A rotation over one buffer fewer.
BufIndexShort(n) == n % (cipherStreamBufferCount - 1)

\* The buffer the producer uses in iteration n.
BufIndex(n) == n % cipherStreamBufferCount

\* The bytes a slice denotes now.
SliceBytes(s) == SubSeq(bufs[s.buf], 1, s.len)

StreamIdle ==
    /\ src = NoSource
    /\ bufs = [b \in 0 .. cipherStreamBufferCount - 1 |-> ZeroBuf]
    /\ i = 0
    /\ ppc = "idle"
    /\ rd = NoRead
    /\ ctrPos = 0
    /\ channel = <<>>
    /\ closed = FALSE
    /\ ctxDone = FALSE
    /\ csError = Nil
    /\ cpc = "idle"
    /\ held = NoSlice
    /\ macMsg = <<>>
    /\ out = <<>>

\* CipherStream.Stream(ctx) over source s: fresh buffers, the goroutine started,
\* the caller about to range over the channel.
StreamStart(s) ==
    /\ src' = s
    /\ bufs' = [b \in 0 .. cipherStreamBufferCount - 1 |-> ZeroBuf]
    /\ i' = 0
    /\ ppc' = "read"
    /\ rd' = NoRead
    /\ ctrPos' = 0
    /\ channel' = <<>>
    /\ closed' = FALSE
    /\ ctxDone' = FALSE
    /\ csError' = Nil
    /\ cpc' = "recv"
    /\ held' = NoSlice
    /\ macMsg' = <<>>
    /\ out' = <<>>

\* The call returned (its deferred cancel ran, the goroutine is gone).
StreamReset ==
    /\ src' = NoSource
    /\ bufs' = [b \in 0 .. cipherStreamBufferCount - 1 |-> ZeroBuf]
    /\ i' = 0
    /\ ppc' = "idle"
    /\ rd' = NoRead
    /\ ctrPos' = 0
    /\ channel' = <<>>
    /\ closed' = FALSE
    /\ ctxDone' = FALSE
    /\ csError' = Nil
    /\ cpc' = "idle"
    /\ held' = NoSlice
    /\ macMsg' = <<>>
    /\ out' = <<>>

\* The goroutine runs while the call that started it runs, and on after a call
\* that returned early.
Streaming == pc \in {"encrypting", "decrypting", "dack", "cancelled"}

\* ------------------------------------------------- CipherStream goroutine
\* A goroutine that closes the channel on an error without recording it.
ProducerAfterSilent(err) ==
    IF err = Nil
    THEN /\ i' = i + 1
         /\ ppc' = "read"
         /\ UNCHANGED <<closed, csError>>
    ELSE /\ i' = i
         /\ ppc' = "done"
         /\ closed' = TRUE
         /\ csError' = csError

\* What the goroutine does with err once the bytes of a read are dealt with
\* (cipherstream.go 63-69): loop on nil, close on EOF, set Error and close on
\* any other error.
ProducerAfter(err) ==
    IF err = Nil
    THEN /\ i' = i + 1
         /\ ppc' = "read"
         /\ UNCHANGED <<closed, csError>>
    ELSE /\ i' = i
         /\ ppc' = "done"
         /\ closed' = TRUE
         /\ csError' = IF err = EOF THEN csError ELSE err

\* cipherstream.go 42-44: buf := bufs[i%3]; l, err := cs.Source.Read(buf)
ProducerRead ==
    /\ Streaming
    /\ ppc = "read"
    /\ \E r \in SourceRead(src, cipherStreamBufferSize) :
        /\ src' = r.src
        /\ rd' = [l |-> r.l, err |-> r.err]
        /\ bufs' = [bufs EXCEPT ![BufIndex(i)] =
                      r.bytes \o SubSeq(@, r.l + 1, cipherStreamBufferSize)]
        /\ IF r.l > 0
           THEN /\ ppc' = "xor"
                /\ UNCHANGED <<i, closed, csError>>
           ELSE ProducerAfter(r.err)
    /\ UNCHANGED <<ctrPos, channel, ctxDone, cpc, held, macMsg, out>>
    /\ UNCHANGED <<pc, plaintext, secret, key, outs, hmacs, splits, blob, tamper,
                   path, rdErr, rdOut, rdBuf>>
    /\ UNCHANGED <<manifestVars, backupVars, extVars>>

\* cipherstream.go 49-50: filled := buf[:l]; cs.Cipher.XORKeyStream(filled, filled)
ProducerXor ==
    /\ Streaming
    /\ ppc = "xor"
    /\ bufs' = [bufs EXCEPT ![BufIndex(i)] =
                  XORKeyStream(key, ctrPos, SubSeq(@, 1, rd.l))
                  \o SubSeq(@, rd.l + 1, cipherStreamBufferSize)]
    /\ ctrPos' = ctrPos + rd.l
    /\ ppc' = "send"
    /\ UNCHANGED <<src, i, rd, channel, closed, ctxDone, csError, cpc, held,
                   macMsg, out>>
    /\ UNCHANGED <<pc, plaintext, secret, key, outs, hmacs, splits, blob, tamper,
                   path, rdErr, rdOut, rdBuf>>
    /\ UNCHANGED <<manifestVars, backupVars, extVars>>

\* cipherstream.go 52-59: the select between ctx.Done() and the send, then the
\* handling of err.
ProducerSend ==
    /\ Streaming
    /\ ppc = "send"
    /\ \/ /\ Len(channel) < ChannelCap
          /\ channel' = Append(channel, [buf |-> BufIndex(i), len |-> rd.l])
          /\ ProducerAfter(rd.err)
       \/ /\ ctxDone
          /\ ppc' = "done"
          /\ closed' = TRUE
          /\ UNCHANGED <<channel, i, csError>>
    /\ UNCHANGED <<src, bufs, rd, ctrPos, ctxDone, cpc, held, macMsg, out>>
    /\ UNCHANGED <<pc, plaintext, secret, key, outs, hmacs, splits, blob, tamper,
                   path, rdErr, rdOut, rdBuf>>
    /\ UNCHANGED <<manifestVars, backupVars, extVars>>

\* ------------------------------------------------------ the consumer loop
\* for buf := range cipherStream.Stream(ctx): the next slice, or the end of the
\* loop once the channel is closed and empty.
ConsumerRecv ==
    /\ Streaming
    /\ cpc = "recv"
    /\ IF channel # <<>>
       THEN /\ held' = Head(channel)
            /\ channel' = Tail(channel)
            /\ cpc' = IF pc = "encrypting" THEN "mac" ELSE "write"
       ELSE /\ closed
            /\ cpc' = "after"
            /\ UNCHANGED <<held, channel>>
    /\ UNCHANGED <<src, bufs, i, ppc, rd, ctrPos, closed, ctxDone, csError,
                   macMsg, out>>
    /\ UNCHANGED <<pc, plaintext, secret, key, outs, hmacs, splits, blob, tamper,
                   path, rdErr, rdOut, rdBuf>>
    /\ UNCHANGED <<manifestVars, backupVars, extVars>>

\* A loop that writes the slice out without feeding it to the mac.
ConsumerMacSkipped ==
    /\ Streaming
    /\ cpc = "mac"
    /\ macMsg' = macMsg
    /\ cpc' = "write"
    /\ UNCHANGED <<src, bufs, i, ppc, rd, ctrPos, channel, closed, ctxDone,
                   csError, held, out>>
    /\ UNCHANGED <<pc, plaintext, secret, key, outs, hmacs, splits, blob, tamper,
                   path, rdErr, rdOut, rdBuf>>
    /\ UNCHANGED <<manifestVars, backupVars, extVars>>

\* writer.go 56: mac.Write(buf)
ConsumerMac ==
    /\ Streaming
    /\ cpc = "mac"
    /\ macMsg' = macMsg \o SliceBytes(held)
    /\ cpc' = "write"
    /\ UNCHANGED <<src, bufs, i, ppc, rd, ctrPos, channel, closed, ctxDone,
                   csError, held, out>>
    /\ UNCHANGED <<pc, plaintext, secret, key, outs, hmacs, splits, blob, tamper,
                   path, rdErr, rdOut, rdBuf>>
    /\ UNCHANGED <<manifestVars, backupVars, extVars>>

\* writer.go 58 / reader.go 223: output.Write(buf)
ConsumerWrite ==
    /\ Streaming
    /\ cpc = "write"
    /\ out' = out \o SliceBytes(held)
    /\ cpc' = "recv"
    /\ UNCHANGED <<src, bufs, i, ppc, rd, ctrPos, channel, closed, ctxDone,
                   csError, held, macMsg>>
    /\ UNCHANGED <<pc, plaintext, secret, key, outs, hmacs, splits, blob, tamper,
                   path, rdErr, rdOut, rdBuf>>
    /\ UNCHANGED <<manifestVars, backupVars, extVars>>

\* ------------------------------------------------------------ the writer
\* The test and the drivers: key, err := ComputeKey(input, cs)
ComputeKeyStep ==
    /\ pc = "computeKey"
    /\ key' = ComputeKey(plaintext, secret)
    /\ pc' = "encrypt"
    /\ UNCHANGED <<plaintext, secret, streamVars, outs, hmacs, splits, blob,
                   tamper, path, rdErr, rdOut, rdBuf>>
    /\ UNCHANGED <<manifestVars, backupVars, extVars>>

\* writer.go 34-53: Writer.Encrypt up to the range over the stream.
EncryptStart ==
    /\ pc \in {"encrypt", "written"}
    /\ AesKeyOK(key)
    /\ StreamStart(PlainSource(plaintext))
    /\ pc' = "encrypting"
    /\ UNCHANGED <<plaintext, secret, key, outs, hmacs, splits, blob, tamper,
                   path, rdErr, rdOut, rdBuf>>
    /\ UNCHANGED <<manifestVars, backupVars, extVars>>

\* An Encrypt that does not look at the stream's Error after the loop.
EncryptReturnUnchecked ==
    /\ pc = "encrypting"
    /\ cpc = "after"
    /\ LET hmacFinal == HmacSum(shaSlice256(shaSlice256(key)), macMsg)
       IN  /\ outs' = Append(outs, out \o hmacFinal)
           /\ hmacs' = Append(hmacs, hmacFinal)
    /\ encErr' = Nil
    /\ splits' = Append(splits, i)
    /\ pc' = IF archive.written THEN "streamed"
             ELSE IF Len(outs) = 0 THEN "written" ELSE "done"
    /\ StreamReset
    /\ UNCHANGED <<plaintext, secret, key, blob, tamper, path, rdErr, rdOut,
                   rdBuf>>
    /\ UNCHANGED <<manifestVars, backupVars, driverVars, scan, ter, pool, mu, rmain,
                   moreVars>>

\* writer.go 63-71: after the loop, return the stream's error, or write the
\* HMAC suffix and return it.
EncryptReturn ==
    /\ pc = "encrypting"
    /\ cpc = "after"
    /\ LET hmacFinal == HmacSum(shaSlice256(shaSlice256(key)), macMsg)
       IN  IF csError # Nil
           THEN /\ outs' = Append(outs, out)
                /\ hmacs' = Append(hmacs, <<>>)
           ELSE /\ outs' = Append(outs, out \o hmacFinal)
                /\ hmacs' = Append(hmacs, hmacFinal)
    /\ encErr' = csError
    /\ splits' = Append(splits, i)
    /\ pc' = IF archive.written THEN "streamed"
             ELSE IF Len(outs) = 0 THEN "written" ELSE "done"
    /\ StreamReset
    /\ UNCHANGED <<plaintext, secret, key, blob, tamper, path, rdErr, rdOut,
                   rdBuf>>
    /\ UNCHANGED <<manifestVars, backupVars, driverVars, scan, ter, pool, mu, rmain,
                   moreVars>>

\* ---------------------------------------------- what the reader is given
\* The blob as written.
KeepBlob ==
    /\ pc = "written"
    /\ blob' = outs[1]
    /\ tamper' = None
    /\ pc' = "open"
    /\ splits' = <<>>
    /\ UNCHANGED <<plaintext, secret, key, streamVars, outs, hmacs, path, rdErr,
                   rdOut, rdBuf>>
    /\ UNCHANGED <<manifestVars, backupVars, extVars>>

\* The values a changed byte may take: another bit, or the byte plus one.
OtherValues(v) == (Byte \cup {v + 1}) \ {v}

\* The blob with exactly one byte changed.
MutateBlob ==
    /\ pc = "written"
    /\ \E j \in 1 .. Len(outs[1]) : \E v \in OtherValues(outs[1][j]) :
          blob' = [outs[1] EXCEPT ![j] = v]
    /\ tamper' = "mutate"
    /\ pc' = "open"
    /\ splits' = <<>>
    /\ UNCHANGED <<plaintext, secret, key, streamVars, outs, hmacs, path, rdErr,
                   rdOut, rdBuf>>
    /\ UNCHANGED <<manifestVars, backupVars, extVars>>

\* A proper prefix of the blob.
TruncateBlob ==
    /\ pc = "written"
    /\ \E n \in 0 .. Len(outs[1]) - 1 : blob' = SubSeq(outs[1], 1, n)
    /\ tamper' = "truncate"
    /\ pc' = "open"
    /\ splits' = <<>>
    /\ UNCHANGED <<plaintext, secret, key, streamVars, outs, hmacs, path, rdErr,
                   rdOut, rdBuf>>
    /\ UNCHANGED <<manifestVars, backupVars, extVars>>

\* ------------------------------------------------------------ the reader
FileSignatureInvalid == "File signature invalid (HMAC)"
SeekError == "negative position"

\* part_007 CheckKey over the bytes of a seekable source: the offset at which
\* the body ends and the error.
CheckKey(source, k) ==
    LET hmacKey == shaSlice256(shaSlice256(k))
        trailerPos == Len(source) - HMACSize
        embeddedHMAC == SubSeq(source, trailerPos + 1, Len(source))
        bodyHMAC == HmacSum(hmacKey, SubSeq(source, 1, trailerPos))
    IN  IF trailerPos < 0
        THEN [offset |-> 0, err |-> SeekError]
        ELSE IF ~HmacEqual(bodyHMAC, embeddedHMAC)
        THEN [offset |-> 0, err |-> FileSignatureInvalid]
        ELSE [offset |-> trailerPos, err |-> Nil]

\* reader.go 192-201 NewReader, then reader.go 204-222 Reader.Decrypt up to the
\* range over the stream; an error of CheckKey is returned with no Reader.
NewReaderStep ==
    /\ pc = "open"
    /\ path' = "reader"
    /\ LET r == CheckKey(blob, key)
       IN  IF r.err # Nil
           THEN /\ rdErr' = r.err
                /\ pc' = "done"
                /\ UNCHANGED streamVars
           ELSE /\ rdErr' = rdErr
                /\ pc' = "decrypting"
                /\ StreamStart(LimitSource(blob, r.offset))
    /\ UNCHANGED <<plaintext, secret, key, outs, hmacs, splits, blob, tamper,
                   rdOut, rdBuf>>
    /\ UNCHANGED <<manifestVars, backupVars, extVars>>

\* reader.go 228-229: Decrypt returns the stream's error.
DecryptReturn ==
    /\ pc = "decrypting"
    /\ cpc = "after"
    /\ rdErr' = csError
    /\ rdOut' = out
    /\ pc' = "done"
    /\ StreamReset
    /\ UNCHANGED <<plaintext, secret, key, outs, hmacs, splits, blob, tamper,
                   path, rdBuf>>
    /\ UNCHANGED <<manifestVars, backupVars, extVars>>

\* reader.go 273-293: DecryptAndCheckKey up to the range over the stream inside
\* reader.Decrypt(&buf).
DecryptAndCheckKeyStart ==
    /\ pc = "open"
    /\ AesKeyOK(key)
    /\ path' = "dack"
    /\ pc' = "dack"
    /\ StreamStart(TerSource(blob))
    /\ UNCHANGED <<plaintext, secret, key, outs, hmacs, splits, blob, tamper,
                   rdErr, rdOut, rdBuf>>
    /\ UNCHANGED <<manifestVars, backupVars, extVars>>

\* A comparison that passes whatever tail is shorter than a trailer.
TailMatchesLenient(s, k) ==
    \/ Len(s.tail) < HMACSize
    \/ HmacEqual(s.tail, HmacSum(shaSlice256(shaSlice256(k)), s.tee))

\* reader.go 296-298: the withheld tail against the HMAC of the teed bytes.
TailMatches(s, k) ==
    LET embeddedHMAC == s.tail
        calculatedHMAC == HmacSum(shaSlice256(shaSlice256(k)), s.tee)
    IN  HmacEqual(embeddedHMAC, calculatedHMAC)

\* reader.go 291-304: after Decrypt, compare the teed HMAC with the withheld
\* tail; on a mismatch buf.Reset() (the length becomes 0, the bytes stay) and
\* return (nil, HMACInvalid).
DecryptAndCheckKeyReturn ==
    /\ pc = "dack"
    /\ cpc = "after"
    /\ IF csError # Nil
       THEN /\ rdErr' = csError
            /\ rdOut' = <<>>
            /\ rdBuf' = [mem |-> out, len |-> Len(out), returned |-> FALSE]
       ELSE IF TailMatches(src, key)
       THEN /\ rdErr' = Nil
            /\ rdOut' = out
            /\ rdBuf' = [mem |-> out, len |-> Len(out), returned |-> TRUE]
       ELSE /\ rdErr' = HMACInvalid
            /\ rdOut' = <<>>
            /\ rdBuf' = [mem |-> out, len |-> 0, returned |-> FALSE]
    /\ pc' = "done"
    /\ StreamReset
    /\ UNCHANGED <<plaintext, secret, key, outs, hmacs, splits, blob, tamper,
                   path>>
    /\ UNCHANGED <<manifestVars, backupVars, extVars>>

\* ------------------------------------------------------------ the Manifest
\* A path is a sequence of characters; strings.HasPrefix and strings.HasSuffix.
HasPrefix(s, p) == Len(s) >= Len(p) /\ SubSeq(s, 1, Len(p)) = p
HasSuffix(s, p) == Len(s) >= Len(p) /\ SubSeq(s, Len(s) - Len(p) + 1, Len(s)) = p

\* A Go map is a function on the set of its keys.
EmptyMap == [h \in {} |-> h]
MapPut(m, k, v) == [h \in DOMAIN m \cup {k} |-> IF h = k THEN v ELSE m[h]]
MapDelete(m, k) == [h \in DOMAIN m \ {k} |-> m[h]]

\* The orders in which a range over a Go map can visit a set.
Orderings(S) ==
    {q \in [1 .. Cardinality(S) -> S] :
        \A a, b \in 1 .. Cardinality(S) : a # b => q[a] # q[b]}

NoDiff == [Change |-> <<>>, Remove |-> <<>>]

\* keystore.go 39-41
IsEmpty(d) == Len(d.Change) = 0 /\ Len(d.Remove) = 0

\* keystore.go 51-54: the path is always checked with a trailing slash.
DiffPath(dir) == IF HasSuffix(dir, <<"/">>) THEN dir ELSE dir \o <<"/">>

\* keystore.go 56-60: the LocalHash of every incoming entry.
InputMap(es) == {es[j].LocalHash : j \in DOMAIN es}

\* keystore.go 63-69: the keys the loop deletes from inputMap, those of the
\* manifest's entries under the path whose LocalHash is an incoming one.
DiffUnchanged(m, dir, es) ==
    {h \in DOMAIN m : HasPrefix(m[h].Path, DiffPath(dir)) /\ h \in InputMap(es)}

\* keystore.go 63-73: the manifest's entries under the path whose LocalHash is
\* not an incoming one.
DiffRemove(m, dir, es) ==
    {m[h] : h \in {g \in DOMAIN m :
                     HasPrefix(m[g].Path, DiffPath(dir)) /\ g \notin InputMap(es)}}

\* keystore.go 76-81: the incoming entries whose LocalHash is still in inputMap,
\* in their order.
DiffChange(m, dir, es) ==
    SelectSeq(es, LAMBDA e : e.LocalHash \in InputMap(es) \ DiffUnchanged(m, dir, es))

\* keystore.go 47-84: Remove is appended to in the order the range over
\* k.Entries visits the map, so Diff has one result per order.
Diff(m, dir, es) ==
    {[Change |-> DiffChange(m, dir, es), Remove |-> r] :
        r \in Orderings(DiffRemove(m, dir, es))}

\* keystore.go 91-93
RECURSIVE CommitChange(_, _)
CommitChange(m, ch) ==
    IF ch = <<>> THEN m
    ELSE CommitChange(MapPut(m, Head(ch).LocalHash, Head(ch)), Tail(ch))

\* keystore.go 94-96
RECURSIVE CommitRemove(_, _)
CommitRemove(m, rm) ==
    IF rm = <<>> THEN m
    ELSE CommitRemove(MapDelete(m, Head(rm).LocalHash), Tail(rm))

\* keystore.go 87-97
Commit(m, d) == CommitRemove(CommitChange(m, d.Change), d.Remove)

\* GarbageCollectable without the loop that drops the retained HMACs.
GarbageCollectableUnfiltered(m, es) == es

\* keystore.go 100-120: the candidates whose HMAC no entry of the manifest has.
GarbageCollectable(m, es) ==
    LET collectableMap == {es[j].HMAC : j \in DOMAIN es} \ {m[h].HMAC : h \in DOMAIN m}
    IN  SelectSeq(es, LAMBDA e : e.HMAC \in collectableMap)

\* The values the Manifest specification draws its inputs from.
MaxEntries == 2
LocalHashes == 1 .. 3
HMACs == 1 .. 2
ManifestPaths == {<<"/", "a", "/", "x">>, <<"/", "a", "b", "/", "x">>}
Prefixes == {<<"/", "a">>, <<"/", "a", "/">>}
EntryUniverse ==
    {[LocalHash |-> h, Path |-> p, Key |-> c, HMAC |-> c] :
        h \in LocalHashes, p \in ManifestPaths, c \in HMACs}
EntryLists == UNION {[1 .. n -> EntryUniverse] : n \in 0 .. MaxEntries}
\* Every key of Entries is the LocalHash of its entry (Load, Commit).
Manifests ==
    {m \in UNION {[D -> EntryUniverse] : D \in SUBSET LocalHashes} :
        \A h \in DOMAIN m : m[h].LocalHash = h}

\* The Manifest before any call.
ManifestIdle ==
    /\ manifest = EmptyMap
    /\ prior = EmptyMap
    /\ prefix = <<>>
    /\ entries = <<>>
    /\ diff = NoDiff
    /\ collectable = <<>>
    /\ mpc = "idle"

\* diff := manifest.Diff(prefix, entries)
ManifestDiff ==
    /\ mpc = "idle"
    /\ \E dir \in Prefixes, es \in EntryLists :
          /\ prefix' = dir
          /\ entries' = es
          /\ diff' \in Diff(manifest, dir, es)
    /\ prior' = manifest
    /\ mpc' = "diffed"
    /\ UNCHANGED <<manifest, collectable>>
    /\ UNCHANGED <<codecVars, backupVars, extVars>>

\* manifest.Commit(diff)
ManifestCommit ==
    /\ mpc = "diffed"
    /\ manifest' = Commit(manifest, diff)
    /\ mpc' = "committed"
    /\ UNCHANGED <<prior, prefix, entries, diff, collectable>>
    /\ UNCHANGED <<codecVars, backupVars, extVars>>

\* manifest.GarbageCollectable(diff.Remove)
ManifestGarbageCollectable ==
    /\ mpc = "committed"
    /\ collectable' = GarbageCollectable(manifest, diff.Remove)
    /\ mpc' = "collected"
    /\ UNCHANGED <<manifest, prior, prefix, entries, diff>>
    /\ UNCHANGED <<codecVars, backupVars, extVars>>

\* ------------------------------------------------------- the backup driver
\* How many workers RunWorkers starts, how often the source directory is
\* edited, and how many times BackupMain runs.
NumWorkers == 2
MaxEdits == 1
MaxRuns == 2

Workers == 1 .. NumWorkers

\* The source directory: its absolute path, the files it can hold (paths
\* relative to it, in the lexical order filepath.Walk visits them) and the
\* contents they can have.
inPath == <<"/", "r">>
WalkOrder == << <<"x">>, <<"y">> >>
RelPaths == {WalkOrder[j] : j \in DOMAIN WalkOrder}
Contents == {<<0>>, <<1>>}

\* writer.go 34-71 as a function: the ciphertext and the HMAC a run of Encrypt
\* that meets no error writes for a source under a key.
EncryptBody(plain, k) == XORKeyStream(k, 0, plain)
EncryptHMAC(plain, k) == HmacSum(shaSlice256(shaSlice256(k)), EncryptBody(plain, k))

\* main.go 27: how much of an HMAC names its blob (40 characters of its base64
\* encoding in the program).
filenameLen == 1

\* hmac512.go 14-16 as BackupMain calls it, URLChars(filenameLen): the first
\* part of the HMAC.
URLChars(hmac) == SubSeq(hmac, 1, Min(filenameLen, Len(hmac)))

\* localhash.go 40-66: the hash of the secret, the path, the modification time
\* and the size, a hash being its input.
LocalHashSet(filePath, cs, info) == <<cs, filePath, info.ModTime, info.Size>>

\* scanning.go 55-125 with the empty Secrets map BackupMain passes: one result
\* per file, its Path relative to the directory.
RECURSIVE ScanFrom(_, _)
ScanFrom(t, todo) ==
    IF todo = <<>> THEN <<>>
    ELSE LET relPath == Head(todo)
         IN  (IF relPath \in DOMAIN t
              THEN <<[Path |-> relPath,
                      Info |-> [ModTime |-> t[relPath].mtime,
                                Size |-> Len(t[relPath].content)],
                      CS |-> <<>>]>>
              ELSE <<>>) \o ScanFrom(t, Tail(todo))

Scan(t) == ScanFrom(t, WalkOrder)

\* keystore.go 229-232: the result's LocalHash is a key of the manifest.
ResolveHit(m, r) == LocalHashSet(r.Path, r.CS, r.Info) \in DOMAIN m

\* keystore.go 234-238: os.Open fails for a result that is no hit.
ResolveFails(m, t, rs) ==
    \E j \in DOMAIN rs : ~ResolveHit(m, rs[j]) /\ rs[j].Path \notin DOMAIN t

\* keystore.go 217-263: the stored entry on a hit, else a new entry from the
\* file as it is now.
ResolveOne(m, t, r) ==
    LET localHash == LocalHashSet(r.Path, r.CS, r.Info)
        k == ComputeKey(t[r.Path].content, r.CS)
    IN  IF localHash \in DOMAIN m
        THEN m[localHash]
        ELSE [LocalHash |-> localHash,
              Path |-> r.Path,
              Key |-> k,
              HMAC |-> EncryptHMAC(t[r.Path].content, k)]

\* keystore.go 207-276: the entries, in the order the workers delivered them.
Resolve(m, t, rs) == Orderings({ResolveOne(m, t, rs[j]) : j \in DOMAIN rs})

\* A manifest file left by the version of the program whose scanner emitted
\* absolute paths, and the store that goes with it.
LegacyEntry ==
    LET p == inPath \o <<"/", "x">>
        info == [ModTime |-> 0, Size |-> 1]
        k == ComputeKey(<<0>>, <<>>)
    IN  [LocalHash |-> LocalHashSet(p, <<>>, info),
         Path |-> p,
         Key |-> k,
         HMAC |-> EncryptHMAC(<<0>>, k)]

LegacyManifest == MapPut(EmptyMap, LegacyEntry.LocalHash, LegacyEntry)
LegacyStore ==
    MapPut(EmptyMap, URLChars(LegacyEntry.HMAC),
           EncryptBody(<<0>>, LegacyEntry.Key) \o LegacyEntry.HMAC)

NoFileOnDisk == [exists |-> FALSE, entries |-> EmptyMap]
NoEntry == [LocalHash |-> <<>>, Path |-> <<>>, Key |-> NoKey, HMAC |-> <<>>]

NoHistory ==
    [wrote |-> FALSE, committed |-> FALSE, saved |-> FALSE, unlinked |-> FALSE,
     dirty |-> FALSE, unchanged |-> FALSE, last |-> "none",
     diskAtStart |-> NoFileOnDisk, pristine |-> TRUE]

\* BackupMain not running, an empty source directory, an empty store and no
\* manifest file.
BackupIdle ==
    /\ tree = EmptyMap
    /\ edits = 0
    /\ store = EmptyMap
    /\ disk = NoFileOnDisk
    /\ runs = 0
    /\ rpc = "idle"
    /\ results = <<>>
    /\ sent = 0
    /\ wpc = [w \in Workers |-> "idle"]
    /\ wentry = [w \in Workers |-> NoEntry]
    /\ wsrc = [w \in Workers |-> <<>>]
    /\ errs = <<>>
    /\ hist = NoHistory

\* Something outside the program writes a file of the source directory.
WriteFile ==
    /\ edits < MaxEdits
    /\ \E p \in RelPaths, c \in Contents :
          tree' = MapPut(tree, p, [content |-> c, mtime |-> edits + 1])
    /\ edits' = edits + 1
    /\ hist' = [hist EXCEPT !.dirty = TRUE]
    /\ UNCHANGED <<store, disk, runs, rpc, results, sent, wpc, wentry, wsrc, errs>>
    /\ UNCHANGED <<codecVars, manifestVars, extVars>>

\* Something outside the program removes a file of the source directory.
RemoveFile ==
    /\ edits < MaxEdits
    /\ \E p \in DOMAIN tree : tree' = MapDelete(tree, p)
    /\ edits' = edits + 1
    /\ hist' = [hist EXCEPT !.dirty = TRUE]
    /\ UNCHANGED <<store, disk, runs, rpc, results, sent, wpc, wentry, wsrc, errs>>
    /\ UNCHANGED <<codecVars, manifestVars, extVars>>

\* part_005 53: results, err := scanner.Scan(inPath)
BackupScan ==
    /\ rpc = "idle"
    /\ runs < MaxRuns
    /\ runs' = runs + 1
    /\ results' = Scan(tree)
    /\ rpc' = "load"
    /\ manifest' = EmptyMap
    /\ entries' = <<>>
    /\ diff' = NoDiff
    /\ collectable' = <<>>
    /\ sent' = 0
    /\ wpc' = [w \in Workers |-> "idle"]
    /\ wentry' = [w \in Workers |-> NoEntry]
    /\ wsrc' = [w \in Workers |-> <<>>]
    /\ errs' = <<>>
    /\ hist' = [wrote |-> FALSE, committed |-> FALSE, saved |-> FALSE,
                unlinked |-> FALSE, dirty |-> FALSE,
                unchanged |-> (hist.last = "done" /\ ~hist.dirty),
                last |-> "running", diskAtStart |-> disk,
                pristine |-> hist.pristine]
    /\ UNCHANGED <<tree, edits, store, disk>>
    /\ UNCHANGED <<prior, prefix, mpc>>
    /\ UNCHANGED <<codecVars, extVars>>

\* part_005 59-72: Load the manifest file, or Init when there is none.
BackupLoad ==
    /\ rpc = "load"
    /\ manifest' = IF disk.exists THEN disk.entries ELSE EmptyMap
    /\ rpc' = "resolve"
    /\ UNCHANGED <<prior, prefix, entries, diff, collectable, mpc>>
    /\ UNCHANGED <<tree, edits, store, disk, runs, results, sent, wpc, wentry,
                   wsrc, errs, hist>>
    /\ UNCHANGED <<codecVars, extVars>>

\* part_005 75-78: entries, err := manifest.Resolve(inPath, results), and the
\* panic on an error.
BackupResolve ==
    /\ rpc = "resolve"
    /\ IF ResolveFails(manifest, tree, results)
       THEN /\ rpc' = "idle"
            /\ hist' = [hist EXCEPT !.last = "panic"]
            /\ UNCHANGED entries
       ELSE /\ entries' \in Resolve(manifest, tree, results)
            /\ rpc' = "diff"
            /\ UNCHANGED hist
    /\ UNCHANGED <<manifest, prior, prefix, diff, collectable, mpc>>
    /\ UNCHANGED <<tree, edits, store, disk, runs, results, sent, wpc, wentry,
                   wsrc, errs>>
    /\ UNCHANGED <<codecVars, extVars>>

\* part_005 81-86: diff := manifest.Diff(inPath, entries), and the exit when
\* the diff is empty.
BackupDiff ==
    /\ rpc = "diff"
    /\ \E d \in Diff(manifest, inPath, entries) :
          /\ diff' = d
          /\ IF IsEmpty(d)
             THEN /\ rpc' = "idle"
                  /\ hist' = [hist EXCEPT !.last = "nochange"]
             ELSE /\ rpc' = "workers"
                  /\ UNCHANGED hist
    /\ UNCHANGED <<manifest, prior, prefix, entries, collectable, mpc>>
    /\ UNCHANGED <<tree, edits, store, disk, runs, results, sent, wpc, wentry,
                   wsrc, errs>>
    /\ UNCHANGED <<codecVars, extVars>>

\* The part of a run in which the goroutines RunWorkers started can run.
WorkersStarted == rpc \in {"workers", "errs", "commit", "save", "gc", "unlink"}

\* part_000 26-37 and part_005 89-96: a worker receives the next entry of
\* diff.Change from the unbuffered channel, or finds the channel closed.
WorkerReceive(w) ==
    /\ WorkersStarted
    /\ wpc[w] = "idle"
    /\ IF sent < Len(diff.Change)
       THEN /\ wentry' = [wentry EXCEPT ![w] = diff.Change[sent + 1]]
            /\ sent' = sent + 1
            /\ wpc' = [wpc EXCEPT ![w] = "stat"]
       ELSE /\ wpc' = [wpc EXCEPT ![w] = "exited"]
            /\ UNCHANGED <<wentry, sent>>
    /\ UNCHANGED <<tree, edits, store, disk, runs, rpc, results, wsrc, errs, hist>>
    /\ UNCHANGED <<codecVars, manifestVars, extVars>>

\* part_005 105-112, 135: the blob exists, the worker returns nil.
WorkerStat(w) ==
    /\ WorkersStarted
    /\ wpc[w] = "stat"
    /\ IF URLChars(wentry[w].HMAC) \in DOMAIN store
       THEN /\ wpc' = [wpc EXCEPT ![w] = "idle"]
            /\ wentry' = [wentry EXCEPT ![w] = NoEntry]
       ELSE /\ wpc' = [wpc EXCEPT ![w] = "open"]
            /\ UNCHANGED wentry
    /\ UNCHANGED <<tree, edits, store, disk, runs, rpc, results, sent, wsrc, errs,
                   hist>>
    /\ UNCHANGED <<codecVars, manifestVars, extVars>>

\* part_005 114-117: os.Open(filepath.Join(inPath, entry.Path))
WorkerOpen(w) ==
    /\ WorkersStarted
    /\ wpc[w] = "open"
    /\ IF wentry[w].Path \in DOMAIN tree
       THEN /\ wsrc' = [wsrc EXCEPT ![w] = tree[wentry[w].Path].content]
            /\ wpc' = [wpc EXCEPT ![w] = "create"]
            /\ UNCHANGED <<errs, wentry>>
       ELSE /\ errs' = Append(errs, "no such file")
            /\ wpc' = [wpc EXCEPT ![w] = "idle"]
            /\ wentry' = [wentry EXCEPT ![w] = NoEntry]
            /\ UNCHANGED wsrc
    /\ UNCHANGED <<tree, edits, store, disk, runs, rpc, results, sent, hist>>
    /\ UNCHANGED <<codecVars, manifestVars, extVars>>

\* part_005 119-122: os.Create(outFilePath) makes the blob, or empties it.
WorkerCreate(w) ==
    /\ WorkersStarted
    /\ wpc[w] = "create"
    /\ store' = MapPut(store, URLChars(wentry[w].HMAC), <<>>)
    /\ wpc' = [wpc EXCEPT ![w] = "encrypt"]
    /\ hist' = [hist EXCEPT !.wrote = TRUE]
    /\ UNCHANGED <<tree, edits, disk, runs, rpc, results, sent, wentry, wsrc, errs>>
    /\ UNCHANGED <<codecVars, manifestVars, extVars>>

\* part_005 130-135: what the worker returns for the HMAC and the error that
\* Encrypt returned.
WorkerResult(entryHMAC, outputHMAC, err) ==
    IF ~HmacEqual(entryHMAC, outputHMAC) THEN err ELSE Nil

\* part_005 124-135 and writer.go 52-71: Encrypt writes the body and the
\* trailer; or fails before the body is written and returns (nil, err); or
\* fails writing the trailer and returns (hmacFinal, err).
WorkerEncrypt(w) ==
    /\ WorkersStarted
    /\ wpc[w] = "encrypt"
    /\ LET name == URLChars(wentry[w].HMAC)
           body == EncryptBody(wsrc[w], wentry[w].Key)
           hmacFinal == EncryptHMAC(wsrc[w], wentry[w].Key)
       IN  \E outcome \in {"written", "body failed", "trailer failed"} :
              LET written == CASE outcome = "written" -> body \o hmacFinal
                               [] outcome = "body failed" -> <<>>
                               [] outcome = "trailer failed" -> body
                  outputHMAC == IF outcome = "body failed" THEN <<>> ELSE hmacFinal
                  err == IF outcome = "written" THEN Nil ELSE WriteError
                  result == WorkerResult(wentry[w].HMAC, outputHMAC, err)
              IN  /\ store' = MapPut(store, name, written)
                  /\ errs' = IF result # Nil THEN Append(errs, result) ELSE errs
    /\ wpc' = [wpc EXCEPT ![w] = "idle"]
    /\ wentry' = [wentry EXCEPT ![w] = NoEntry]
    /\ wsrc' = [wsrc EXCEPT ![w] = <<>>]
    /\ UNCHANGED <<tree, edits, disk, runs, rpc, results, sent, hist>>
    /\ UNCHANGED <<codecVars, manifestVars, extVars>>

\* A RunWorkers that does not wait for its workers.
GroupNoWait == TRUE

\* part_000 40: group.Wait()
GroupWait == \A w \in Workers : wpc[w] = "exited"

\* part_000 40-43: RunWorkers returns the collected results.
RunWorkersReturn ==
    /\ rpc = "workers"
    /\ GroupWait
    /\ rpc' = "errs"
    /\ UNCHANGED <<tree, edits, store, disk, runs, results, sent, wpc, wentry,
                   wsrc, errs, hist>>
    /\ UNCHANGED <<codecVars, manifestVars, extVars>>

\* A driver that goes on whatever the workers returned.
ErrorsIgnored(es) == FALSE

\* part_005 139
HasErrors(es) == Len(es) > 0

\* part_005 139-144: logFatal when a worker returned an error.
BackupCheckErrors ==
    /\ rpc = "errs"
    /\ IF HasErrors(errs)
       THEN /\ rpc' = "idle"
            /\ hist' = [hist EXCEPT !.last = "fatal"]
       ELSE /\ rpc' = "commit"
            /\ UNCHANGED hist
    /\ UNCHANGED <<tree, edits, store, disk, runs, results, sent, wpc, wentry,
                   wsrc, errs>>
    /\ UNCHANGED <<codecVars, manifestVars, extVars>>

\* part_005 147: manifest.Commit(diff)
BackupCommit ==
    /\ rpc = "commit"
    /\ manifest' = Commit(manifest, diff)
    /\ rpc' = "save"
    /\ hist' = [hist EXCEPT !.committed = TRUE]
    /\ UNCHANGED <<prior, prefix, entries, diff, collectable, mpc>>
    /\ UNCHANGED <<tree, edits, store, disk, runs, results, sent, wpc, wentry,
                   wsrc, errs>>
    /\ UNCHANGED <<codecVars, extVars>>

\* part_005 148-150 and keystore.go 157-179: Save writes the manifest file, or
\* os.Create fails and the driver ends in logFatal.
BackupSave ==
    /\ rpc = "save"
    /\ \/ /\ disk' = [exists |-> TRUE, entries |-> manifest]
          /\ rpc' = "gc"
          /\ hist' = [hist EXCEPT !.saved = TRUE]
       \/ /\ rpc' = "idle"
          /\ hist' = [hist EXCEPT !.last = "fatal"]
          /\ UNCHANGED disk
    /\ UNCHANGED <<tree, edits, store, runs, results, sent, wpc, wentry, wsrc, errs>>
    /\ UNCHANGED <<codecVars, manifestVars, extVars>>

\* part_005 229: manifest.GarbageCollectable(diff.Remove)
BackupGarbageCollectable ==
    /\ rpc = "gc"
    /\ collectable' = GarbageCollectable(manifest, diff.Remove)
    /\ rpc' = "unlink"
    /\ UNCHANGED <<manifest, prior, prefix, entries, diff, mpc>>
    /\ UNCHANGED <<tree, edits, store, disk, runs, results, sent, wpc, wentry,
                   wsrc, errs, hist>>
    /\ UNCHANGED <<codecVars, extVars>>

\* part_005 229-233: os.Remove of the next collectable entry's blob.
BackupUnlink ==
    /\ rpc = "unlink"
    /\ collectable # <<>>
    /\ store' = MapDelete(store, URLChars(Head(collectable).HMAC))
    /\ collectable' = Tail(collectable)
    /\ hist' = [hist EXCEPT !.unlinked = TRUE]
    /\ UNCHANGED <<manifest, prior, prefix, entries, diff, mpc>>
    /\ UNCHANGED <<tree, edits, disk, runs, rpc, results, sent, wpc, wentry,
                   wsrc, errs>>
    /\ UNCHANGED <<codecVars, extVars>>

\* part_005 235: return nil
BackupReturn ==
    /\ rpc = "unlink"
    /\ collectable = <<>>
    /\ rpc' = "idle"
    /\ hist' = [hist EXCEPT !.last = "done"]
    /\ UNCHANGED <<tree, edits, store, disk, runs, results, sent, wpc, wentry,
                   wsrc, errs>>
    /\ UNCHANGED <<codecVars, manifestVars, extVars>>

\* ------------------------------------------------ the codec specification
\* The codec before any call, for a given plaintext and secret, the caller
\* being at the given step.
CodecAt(p, cs, at) ==
    /\ pc = at
    /\ plaintext = p
    /\ secret = cs
    /\ key = NoKey
    /\ StreamIdle
    /\ outs = <<>>
    /\ hmacs = <<>>
    /\ splits = <<>>
    /\ blob = <<>>
    /\ tamper = None
    /\ path = None
    /\ rdErr = None
    /\ rdOut = <<>>
    /\ rdBuf = [mem |-> <<>>, len |-> 0, returned |-> FALSE]

\* The test and the drivers begin with ComputeKey.
CodecInit(p, cs) == CodecAt(p, cs, "computeKey")

Init ==
    /\ \E p \in BytesUpTo(MaxLen), cs \in BytesUpTo(MaxSecretLen) : CodecInit(p, cs)
    /\ ManifestIdle
    /\ BackupIdle
    /\ ExtIdle

Next ==
    \/ ComputeKeyStep
    \/ EncryptStart
    \/ ProducerRead
    \/ ProducerXor
    \/ ProducerSend
    \/ ConsumerRecv
    \/ ConsumerMac
    \/ ConsumerWrite
    \/ EncryptReturn
    \/ KeepBlob
    \/ MutateBlob
    \/ TruncateBlob
    \/ NewReaderStep
    \/ DecryptReturn
    \/ DecryptAndCheckKeyStart
    \/ DecryptAndCheckKeyReturn

Spec == Init /\ [][Next]_vars

\* --------------------------------------------- the Manifest specification
ManifestInit ==
    /\ manifest \in Manifests
    /\ prior = EmptyMap
    /\ prefix = <<>>
    /\ entries = <<>>
    /\ diff = NoDiff
    /\ collectable = <<>>
    /\ mpc = "idle"
    /\ CodecInit(<<>>, <<>>)
    /\ BackupIdle
    /\ ExtIdle

ManifestNext ==
    \/ ManifestDiff
    \/ ManifestCommit
    \/ ManifestGarbageCollectable

ManifestSpec == ManifestInit /\ [][ManifestNext]_vars

\* ------------------------------------------ the backup driver specification
\* The source directory holds any of the files, with one content; there is no
\* manifest file and the store is empty, or both are what an earlier version
\* left.
BackupInit ==
    /\ tree \in UNION {[D -> [content : {<<0>>}, mtime : {0}]] : D \in SUBSET RelPaths}
    /\ edits = 0
    /\ \/ /\ disk = NoFileOnDisk
          /\ store = EmptyMap
          /\ hist = NoHistory
       \/ /\ disk = [exists |-> TRUE, entries |-> LegacyManifest]
          /\ store = LegacyStore
          /\ hist = [NoHistory EXCEPT !.pristine = FALSE]
    /\ runs = 0
    /\ rpc = "idle"
    /\ results = <<>>
    /\ sent = 0
    /\ wpc = [w \in Workers |-> "idle"]
    /\ wentry = [w \in Workers |-> NoEntry]
    /\ wsrc = [w \in Workers |-> <<>>]
    /\ errs = <<>>
    /\ ManifestIdle
    /\ CodecInit(<<>>, <<>>)
    /\ ExtIdle

BackupNext ==
    \/ WriteFile
    \/ RemoveFile
    \/ BackupScan
    \/ BackupLoad
    \/ BackupResolve
    \/ BackupDiff
    \/ \E w \in Workers : WorkerReceive(w)
    \/ \E w \in Workers : WorkerStat(w)
    \/ \E w \in Workers : WorkerOpen(w)
    \/ \E w \in Workers : WorkerCreate(w)
    \/ \E w \in Workers : WorkerEncrypt(w)
    \/ RunWorkersReturn
    \/ BackupCheckErrors
    \/ BackupCommit
    \/ BackupSave
    \/ BackupGarbageCollectable
    \/ BackupUnlink
    \/ BackupReturn

BackupSpec == BackupInit /\ [][BackupNext]_vars

\* ------------------------------------------------- sealing and restoring
\* part_001: the label both OAEP calls pass.
SymmetricKeyLabel == "symmetric-key"
DecryptionError == "crypto/rsa: decryption error"
PrivateKeyRequired == "Private Key is required to decrypt manifest"
MissedWriting == "archive/tar: missed writing bytes"
ErrWriteTooLong == "archive/tar: write too long"

\* The RSA key pairs: the public key of pair n, the private key of pair n.
RSAKeyPairs == 1 .. 2
\* The keys crypto/rand can deliver.
RandomKeys == {[size |-> KeySize, id |-> n] : n \in 0 .. 1}

\* A wrap that passes no label.
EncryptKeyUnlabelled(k, pub) ==
    [oaep |-> k, pub |-> pub, hash |-> "sha256", label |-> ""]

\* part_001 EncryptKey: OAEP under pub, with the sha256 oracle and the label.
EncryptKey(k, pub) ==
    [oaep |-> k, pub |-> pub, hash |-> "sha256", label |-> SymmetricKeyLabel]

\* part_001 DecryptKey: the key back under the private key of the same pair
\* and the same parameters, an error otherwise.
DecryptKey(ciphered, priv) ==
    IF /\ ciphered.pub = priv
       /\ ciphered.hash = "sha256"
       /\ ciphered.label = SymmetricKeyLabel
    THEN [key |-> ciphered.oaep, err |-> Nil]
    ELSE [key |-> NoKey, err |-> DecryptionError]

\* base64.RawStdEncoding: the text of a byte value, and the value of a text.
Base64Encode(b) == [base64 |-> b]
Base64Decode(t) == t.base64

\* A header whose size is the size of the file alone.
HeaderSizeOfFile(fileSize) == fileSize

\* part_005 198-201: tar.FileInfoHeader(sourceInfo, ""), then
\* header.Size += blobcrypt.HMACSize
HeaderSize(fileSize) == fileSize + HMACSize

\* part_005 160-209: the public key is loaded, a random key drawn and wrapped,
\* the archive created and the header of its one member written; the Writer is
\* made over the manifest file with the random key.
SealStart ==
    /\ pc = "seal"
    /\ \E randomKey \in RandomKeys, pub \in RSAKeyPairs :
        /\ key' = randomKey
        /\ archive' = [written |-> TRUE,
                       Name |-> "manifest.json",
                       Size |-> HeaderSize(Len(plaintext)),
                       PAXRecords |->
                          [n \in {"BLOBCRYPT.key", "BLOBCRYPT.key.type"} |->
                             IF n = "BLOBCRYPT.key"
                             THEN Base64Encode(EncryptKey(randomKey, pub))
                             ELSE Base64Encode("oaep-aes256")],
                       body |-> <<>>, closed |-> FALSE, err |-> Nil]
    /\ pc' = "encrypt"
    /\ UNCHANGED <<plaintext, secret, streamVars, outs, hmacs, splits, blob,
                   tamper, path, rdErr, rdOut, rdBuf>>
    /\ UNCHANGED <<restored, saved, loaded, rival, toolVars>>
    /\ UNCHANGED <<manifestVars, backupVars>>

\* What tar.Writer made of the bytes Encrypt wrote into a member of the given
\* size: Write fails past the size, Close fails short of it.
TarWritten(bytes, size) ==
    IF Len(bytes) > size
    THEN [body |-> SubSeq(bytes, 1, size), err |-> ErrWriteTooLong]
    ELSE IF Len(bytes) < size
    THEN [body |-> bytes, err |-> MissedWriting]
    ELSE [body |-> bytes, err |-> Nil]

\* part_005 217-224: the error of writer.Encrypt(tarWriter) is returned, else
\* tarWriter.Close() ends the member.
SealClose ==
    /\ pc = "streamed"
    /\ ~archive.closed
    /\ LET t == TarWritten(outs[1], archive.Size)
       IN  archive' = [archive EXCEPT !.body = t.body, !.closed = TRUE,
                                      !.err = IF hmacs[1] = <<>> THEN "encrypt failed"
                                              ELSE t.err]
    /\ pc' = "sealed"
    /\ key' = NoKey
    /\ UNCHANGED <<plaintext, secret, streamVars, outs, hmacs, splits, blob,
                   tamper, path, rdErr, rdOut, rdBuf>>
    /\ UNCHANGED <<restored, saved, loaded, rival, toolVars>>
    /\ UNCHANGED <<manifestVars, backupVars>>

\* restore.go 89-125: tarReader.Next() yields the member's header; the key is
\* taken from its PAX records, decoded and unwrapped with the private key. On
\* success DecryptAndCheckKey is about to be called on the tar reader, which
\* delivers the Size bytes of the member.
RestoreOpen ==
    /\ pc = "sealed"
    /\ archive.err = Nil
    /\ "BLOBCRYPT.key" \in DOMAIN archive.PAXRecords
    /\ Base64Decode(archive.PAXRecords["BLOBCRYPT.key.type"]) = "oaep-aes256"
    /\ \E priv \in RSAKeyPairs \cup {0} :
         LET ciphered == Base64Decode(archive.PAXRecords["BLOBCRYPT.key"])
             k == DecryptKey(ciphered, priv)
         IN  IF priv = 0
             THEN /\ restored' = [called |-> FALSE, err |-> PrivateKeyRequired,
                                  bytes |-> <<>>, priv |-> priv]
                  /\ pc' = "restored"
                  /\ UNCHANGED <<key, blob, tamper>>
             ELSE IF k.err # Nil
             THEN /\ restored' = [called |-> FALSE, err |-> k.err, bytes |-> <<>>,
                                  priv |-> priv]
                  /\ pc' = "restored"
                  /\ UNCHANGED <<key, blob, tamper>>
             ELSE /\ key' = k.key
                  /\ blob' = SubSeq(archive.body, 1, archive.Size)
                  /\ tamper' = None
                  /\ pc' = "open"
                  /\ restored' = [restored EXCEPT !.priv = priv]
    /\ UNCHANGED <<plaintext, secret, streamVars, outs, hmacs, splits, path,
                   rdErr, rdOut, rdBuf>>
    /\ UNCHANGED <<archive, saved, loaded, rival, toolVars>>
    /\ UNCHANGED <<manifestVars, backupVars>>

\* restore.go 128-135: the error of DecryptAndCheckKey is returned, else the
\* buffer it returned is what manifest.Load reads.
RestoreLoad ==
    /\ pc = "done"
    /\ path = "dack"
    /\ archive.closed
    /\ restored' = IF rdErr # Nil
                   THEN [restored EXCEPT !.err = rdErr]
                   ELSE [restored EXCEPT !.called = TRUE, !.bytes = rdOut]
    /\ pc' = "restored"
    /\ UNCHANGED <<plaintext, secret, key, streamVars, outs, hmacs, splits, blob,
                   tamper, path, rdErr, rdOut, rdBuf>>
    /\ UNCHANGED <<archive, saved, loaded, rival, toolVars>>
    /\ UNCHANGED <<manifestVars, backupVars>>

\* -------------------------------------------- the sealing specification
\* The manifest file holds any bytes; nothing is sealed yet.
SealInit ==
    /\ \E p \in BytesUpTo(MaxLen) : CodecAt(p, <<>>, "seal")
    /\ ManifestIdle
    /\ BackupIdle
    /\ ExtIdle

SealNext ==
    \/ SealStart
    \/ EncryptStart
    \/ ProducerRead
    \/ ProducerXor
    \/ ProducerSend
    \/ ConsumerRecv
    \/ ConsumerMac
    \/ ConsumerWrite
    \/ EncryptReturn
    \/ SealClose
    \/ RestoreOpen
    \/ DecryptAndCheckKeyStart
    \/ DecryptAndCheckKeyReturn
    \/ RestoreLoad

SealSpec == SealInit /\ [][SealNext]_vars

\* --------------------------------------------- Manifest.Save and Load
\* A byte of a path that is not valid UTF-8, and the rune U+FFFD.
InvalidByte == "xFF"
ReplacementRune == "U+FFFD"
IncorrectHashLength == "Incorrect hash length in JSON"

\* encoding/json on a string, character by character: HTML characters are
\* written as \u escapes, a byte that is not valid UTF-8 is written as the
\* escape of U+FFFD, any other character as itself.
JSONEscape(c) ==
    CASE c = "<" -> "\\u003c"
      [] c = InvalidByte -> "\\ufffd"
      [] OTHER -> c

\* The character an element of a JSON string stands for.
JSONUnescape(t) ==
    CASE t = "\\u003c" -> "<"
      [] t = "\\ufffd" -> ReplacementRune
      [] OTHER -> t

JSONString(str) == [j \in 1 .. Len(str) |-> JSONEscape(str[j])]
JSONStringValue(text) == [j \in 1 .. Len(text) |-> JSONUnescape(text[j])]

\* localhash.go 17-19, hmac512.go 19-21: json.Marshal(h[:]), the base64 text of
\* the bytes.
MarshalJSON(h) == Base64Encode(h)

\* localhash.go 22-31, hmac512.go 24-33: the bytes of the text are copied into
\* the array of n bytes; fewer than n bytes copied is an error.
UnmarshalJSON(text, n) ==
    LET raw == Base64Decode(text)
        copied == Min(n, Len(raw))
    IN  IF copied # n
        THEN [err |-> IncorrectHashLength, h |-> SubSeq(raw, 1, copied)]
        ELSE [err |-> Nil, h |-> SubSeq(raw, 1, n)]

\* encoder.Encode(entry): one line, the four fields of the entry.
EncodeEntry(e) ==
    [LocalHash |-> MarshalJSON(e.LocalHash),
     Path |-> JSONString(e.Path),
     Key |-> Base64Encode(e.Key),
     HMAC |-> MarshalJSON(e.HMAC)]

\* decoder.Decode(&entry) on one line.
DecodeEntry(line) ==
    LET h == UnmarshalJSON(line.LocalHash, KeySize)
        m == UnmarshalJSON(line.HMAC, HMACSize)
    IN  [err |-> IF h.err # Nil THEN h.err ELSE m.err,
         entry |-> [LocalHash |-> h.h,
                    Path |-> JSONStringValue(line.Path),
                    Key |-> Base64Decode(line.Key),
                    HMAC |-> m.h]]

\* keystore.go 157-179 Save: the header, then every entry in the order the
\* range over the map delivers them.
Save(m, order) ==
    [exists |-> TRUE, Header |-> "{}",
     lines |-> [j \in 1 .. Len(order) |-> EncodeEntry(m[order[j]])]]

RECURSIVE LoadEntries(_, _)
LoadEntries(lines, acc) ==
    IF lines = <<>>
    THEN [err |-> Nil, Entries |-> acc]
    ELSE LET d == DecodeEntry(Head(lines))
         IN  IF d.err # Nil
             THEN [err |-> d.err, Entries |-> acc]
             ELSE LoadEntries(Tail(lines), MapPut(acc, d.entry.LocalHash, d.entry))

\* keystore.go 129-154 Load: the header is decoded, then entries until EOF,
\* each stored under its own LocalHash; an error leaves Entries as it was.
Load(file, before) ==
    IF file.Header = ""
    THEN [called |-> TRUE, err |-> EOF, Entries |-> before]
    ELSE LET r == LoadEntries(file.lines, EmptyMap)
         IN  [called |-> TRUE, err |-> r.err,
              Entries |-> IF r.err # Nil THEN before ELSE r.Entries]

\* The manifests of the persistence specification: up to two fingerprints,
\* paths with a plain character, an HTML character and an invalid byte.
PersistHashes == {[j \in 1 .. KeySize |-> c] : c \in 0 .. 1}
PersistKeys == {[j \in 1 .. KeySize |-> c] : c \in 0 .. 1}
PersistHMACs == {[j \in 1 .. HMACSize |-> c] : c \in 2 .. 3}
PersistPaths == {<<"d", "/", "a">>, <<"d", "/", "<">>, <<"d", "/", InvalidByte>>}
PersistManifests ==
    UNION {{m \in [D -> [LocalHash : D, Path : PersistPaths, Key : PersistKeys,
                         HMAC : PersistHMACs]] :
              \A h \in D : m[h].LocalHash = h} : D \in SUBSET PersistHashes}

\* manifest.Save(*keycache), the file created and written without error.
ManifestSave ==
    /\ mpc = "idle"
    /\ \E order \in Orderings(DOMAIN manifest) : saved' = Save(manifest, order)
    /\ mpc' = "saved"
    /\ UNCHANGED <<manifest, prior, prefix, entries, diff, collectable>>
    /\ UNCHANGED <<archive, restored, loaded, rival, toolVars>>
    /\ UNCHANGED <<codecVars, backupVars>>

\* A fresh Manifest's Load of the saved file.
ManifestLoad ==
    /\ mpc = "saved"
    /\ loaded' = Load(saved, EmptyMap)
    /\ mpc' = "loaded"
    /\ UNCHANGED <<manifest, prior, prefix, entries, diff, collectable>>
    /\ UNCHANGED <<archive, restored, saved, rival, toolVars>>
    /\ UNCHANGED <<codecVars, backupVars>>

\* ----------------------------------------- the persistence specification
PersistInit ==
    /\ manifest \in PersistManifests
    /\ prior = EmptyMap
    /\ prefix = <<>>
    /\ entries = <<>>
    /\ diff = NoDiff
    /\ collectable = <<>>
    /\ mpc = "idle"
    /\ CodecInit(<<>>, <<>>)
    /\ BackupIdle
    /\ ExtIdle

PersistNext ==
    \/ ManifestSave
    \/ ManifestLoad

PersistSpec == PersistInit /\ [][PersistNext]_vars

\* ------------------------------------- the stream over any io.Reader
\* Writer.Encrypt over a Source of which only the io.Reader contract is known.
EncryptStartAny ==
    /\ pc = "encrypt"
    /\ AesKeyOK(key)
    /\ StreamStart(AnySource(plaintext))
    /\ pc' = "encrypting"
    /\ UNCHANGED <<plaintext, secret, key, outs, hmacs, splits, blob, tamper,
                   path, rdErr, rdOut, rdBuf>>
    /\ UNCHANGED <<manifestVars, backupVars, extVars>>

\* writer.go 58-60, reader.go 223-225: output.Write(buf) fails; the call
\* returns the error and its deferred cancel() runs, while the goroutine is
\* wherever it was.
ConsumerWriteError ==
    /\ pc \in {"encrypting", "decrypting"}
    /\ cpc = "write"
    /\ cpc' = "returned"
    /\ ctxDone' = TRUE
    /\ IF pc = "encrypting"
       THEN /\ outs' = Append(outs, out)
            /\ hmacs' = Append(hmacs, <<>>)
            /\ encErr' = WriteError
            /\ UNCHANGED <<rdErr, rdOut>>
       ELSE /\ rdErr' = WriteError
            /\ rdOut' = out
            /\ UNCHANGED <<outs, hmacs, encErr>>
    /\ pc' = "cancelled"
    /\ UNCHANGED <<src, bufs, i, ppc, rd, ctrPos, channel, closed, csError, held,
                   macMsg, out>>
    /\ UNCHANGED <<plaintext, secret, key, splits, blob, tamper, path, rdBuf>>
    /\ UNCHANGED <<manifestVars, backupVars, driverVars, scan, ter, pool, mu, rmain,
                   moreVars>>

\* --------------------------------------------- the stream specification
StreamInit ==
    /\ \E p \in BytesUpTo(MaxLen) : CodecInit(p, <<>>)
    /\ ManifestIdle
    /\ BackupIdle
    /\ ExtIdle

StreamNext ==
    \/ ComputeKeyStep
    \/ EncryptStartAny
    \/ ProducerRead
    \/ ProducerXor
    \/ ProducerSend
    \/ ConsumerRecv
    \/ ConsumerMac
    \/ ConsumerWrite
    \/ ConsumerWriteError
    \/ EncryptReturn
    \/ KeepBlob
    \/ NewReaderStep
    \/ DecryptReturn

StreamSpec == StreamInit /\ [][StreamNext]_vars

\* Whether the goroutine ends depends on how many bytes the source holds and
\* on what its reads return, not on the bytes: one source of each length.
FairStreamInit ==
    /\ \E n \in 0 .. MaxLen : CodecInit([j \in 1 .. n |-> 0], <<>>)
    /\ ManifestIdle
    /\ BackupIdle
    /\ ExtIdle

\* cipherstream.go 39-46, 63: one more read that returns no byte and no error
\* from a reader that has returned MaxStalls of them: nothing is enciphered
\* or sent, the select on ctx.Done() is not reached, err is nil and the loop
\* goes to its next iteration. Of i the loop uses i % cipherStreamBufferCount
\* alone, which is what is kept of it from here on.
ProducerReadNothing ==
    /\ Streaming
    /\ ppc = "read"
    /\ src.kind = "any"
    /\ src.n = 0
    /\ rd' = [l |-> 0, err |-> Nil]
    /\ i' = BufIndex(i + 1)
    /\ UNCHANGED <<src, bufs, ppc, ctrPos, channel, closed, ctxDone, csError, cpc,
                   held, macMsg, out>>
    /\ UNCHANGED <<pc, plaintext, secret, key, outs, hmacs, splits, blob, tamper,
                   path, rdErr, rdOut, rdBuf>>
    /\ UNCHANGED <<manifestVars, backupVars, extVars>>

FairStreamNext ==
    \/ StreamNext
    \/ ProducerReadNothing

\* The goroutine and the loop of the caller are each scheduled again and
\* again, every read of the source and every write of the output returns;
\* what a read returns is the reader's choice.
FairStreamSpec ==
    /\ FairStreamInit
    /\ [][FairStreamNext]_vars
    /\ WF_vars(ProducerRead \/ ProducerReadNothing)
    /\ WF_vars(ProducerXor)
    /\ WF_vars(ProducerSend)
    /\ WF_vars(ConsumerRecv)
    /\ WF_vars(ConsumerMac)
    /\ WF_vars(ConsumerWrite \/ ConsumerWriteError)

\* --------------------------------------------- a second secret
\* part_008 28-39: the file that was encrypted is encrypted again under
\* another convergence secret; the first key and blob are kept for diff.
ChangeSecret ==
    /\ pc = "written"
    /\ ~rival.set
    /\ hmacs[1] # <<>>
    /\ rival' = [set |-> TRUE, secret |-> secret, key |-> key, blob |-> outs[1]]
    /\ \E cs \in BytesUpTo(MaxSecretLen) \ {secret} : secret' = cs
    /\ key' = NoKey
    /\ pc' = "computeKey"
    /\ UNCHANGED <<plaintext, streamVars, outs, hmacs, splits, blob, tamper, path,
                   rdErr, rdOut, rdBuf>>
    /\ UNCHANGED <<archive, restored, saved, loaded, toolVars>>
    /\ UNCHANGED <<manifestVars, backupVars>>

\* writer.go 34-72: one call of Writer.Encrypt on a file that is read to its
\* end, from the first read to the return of the HMAC: the output holds the
\* enciphered source followed by the HMAC of it, however the stream's
\* goroutine and the loop are interleaved.
EncryptCall ==
    /\ pc = "encrypt"
    /\ AesKeyOK(key)
    /\ outs' = Append(outs, EncryptBody(plaintext, key) \o EncryptHMAC(plaintext, key))
    /\ hmacs' = Append(hmacs, EncryptHMAC(plaintext, key))
    /\ pc' = IF Len(outs) = 0 THEN "written" ELSE "done"
    /\ UNCHANGED <<plaintext, secret, key, streamVars, splits, blob, tamper, path,
                   rdErr, rdOut, rdBuf>>
    /\ UNCHANGED <<manifestVars, backupVars, extVars>>

RivalNext ==
    \/ ComputeKeyStep
    \/ EncryptCall
    \/ ChangeSecret

RivalSpec == Init /\ [][RivalNext]_vars

\* ------------------------------------------------------------ the scanner
\* The directory Scan is given (inPath) holds the directories a, a/b and ab;
\* the files it can hold; the paths filepath.Walk visits, in its lexical
\* order.
ScanDirs ==
    {inPath, inPath \o <<"/", "a">>, inPath \o <<"/", "a", "/", "b">>,
     inPath \o <<"/", "a", "b">>}
ScanFiles ==
    {inPath \o <<"/", "a", "/", "b", "/", "f">>, inPath \o <<"/", "a", "/", "c">>,
     inPath \o <<"/", "a", "b", "/", "f">>}
WalkPaths ==
    <<inPath,
      inPath \o <<"/", "a">>,
      inPath \o <<"/", "a", "/", "b">>,
      inPath \o <<"/", "a", "/", "b", "/", "f">>,
      inPath \o <<"/", "a", "/", "c">>,
      inPath \o <<"/", "a", "b">>,
      inPath \o <<"/", "a", "b", "/", "f">>>>

\* The paths a Secrets map can have as keys, each with a secret of its own.
SecretKeys ==
    {<<"/">>, inPath, inPath \o <<"/", "a">>, inPath \o <<"/", "a", "/", "b">>,
     inPath \o <<"/", "a", "/", "c">>, inPath \o <<"/", "a", "b">>}
SecretMaps == {[k \in K |-> <<"s">> \o k] : K \in SUBSET SecretKeys}

\* filepath.Dir of an absolute path: the path without its last element.
FilepathDir(p) ==
    LET slashes == {j \in DOMAIN p : p[j] = "/"}
        last == CHOOSE j \in slashes : \A k \in slashes : k <= j
    IN  IF last = 1 THEN <<"/">> ELSE SubSeq(p, 1, last - 1)

\* filepath.Rel(dir, path) for a path at or under dir.
FilepathRel(d, p) == IF p = d THEN <<".">> ELSE SubSeq(p, Len(d) + 2, Len(p))

\* filepath.Join(dir, rel), the inverse of FilepathRel.
FilepathJoin(d, r) == IF r = <<".">> THEN d ELSE d \o <<"/">> \o r

\* scanning.go 27-32: the keys of Secrets that have dir as a prefix. The sort
\* of 35-37 orders them; nothing below depends on the order.
pathsWithSecrets(S, d) == {k \in DOMAIN S : HasPrefix(k, d)}

\* scanning.go 43: var prevKey string, which the loop of 44-47 never assigns.
prevKey == <<>>

\* scanning.go 40-47: the lookup table, and a lookup in it (false for a key
\* that is not in the table).
hasSubpathSecrets(S, d) ==
    [k \in {<<"/">>} \cup pathsWithSecrets(S, d) |->
        IF k \in pathsWithSecrets(S, d)
        THEN HasPrefix(prevKey, k)
        ELSE Cardinality(pathsWithSecrets(S, d)) > 0]
HasSubpathSecrets(S, d, k) ==
    IF k \in DOMAIN hasSubpathSecrets(S, d) THEN hasSubpathSecrets(S, d)[k] ELSE FALSE

\* scanning.go 88-100: from the path towards the root, the first path that is
\* a key of Secrets; at the root, the root's secret or the empty string.
RECURSIVE Ascend(_, _)
Ascend(S, pDir) ==
    IF pDir = <<"/">>
    THEN [keyDir |-> <<"/">>,
          secret |-> IF <<"/">> \in DOMAIN S THEN S[<<"/">>] ELSE <<>>]
    ELSE IF pDir \in DOMAIN S
         THEN [keyDir |-> pDir, secret |-> S[pDir]]
         ELSE Ascend(S, FilepathDir(pDir))

\* scanning.go 25-53: Scan(dir) up to the call of filepath.Walk, which will
\* visit the directories and the files that exist.
ScanStart ==
    /\ scan.pc = "idle"
    /\ scan' = [scan EXCEPT
                   !.pc = "walk",
                   !.todo = SelectSeq(scan.walk,
                                LAMBDA p : p \in scan.dirs \cup scan.files),
                   !.keyDir = <<"x00">>,
                   !.checkSubpaths = TRUE,
                   !.convergenceSecret = <<>>,
                   !.allResults = <<>>]
    /\ UNCHANGED <<driverVars, ter, pool, mu, encErr, rmain, moreVars>>
    /\ UNCHANGED <<codecVars, manifestVars, backupVars>>

\* filepath.Base of an absolute path: what follows its last separator.
FilepathBase(p) ==
    LET slashes == {j \in DOMAIN p : p[j] = "/"}
        last == CHOOSE j \in slashes : \A k \in slashes : k <= j
    IN  SubSeq(p, last + 1, Len(p))

\* filepath.Walk after the function returned filepath.SkipDir for the
\* directory d: nothing below d is visited.
SkipDir(todo, d) == SelectSeq(todo, LAMBDA q : ~HasPrefix(q, d \o <<"/">>))

\* scanning.go 55-123: the function filepath.Walk calls for the next path,
\* errIn nil.
WalkFn ==
    /\ scan.pc = "walk"
    /\ scan.todo # <<>>
    /\ LET p == Head(scan.todo)
           isDir == p \in scan.dirs
           S == scan.Secrets
           relPath == FilepathRel(scan.dir, p)
           found == Ascend(S, p)
           result(cs) == [Path |-> relPath, CS |-> cs]
       IN  IF HasPrefix(FilepathBase(p), <<".">>)
           THEN scan' = [scan EXCEPT
                    !.todo = IF isDir THEN SkipDir(Tail(@), p) ELSE Tail(@)]
           ELSE IF ~HasPrefix(p, scan.keyDir)
           THEN scan' = [scan EXCEPT
                    !.todo = Tail(@),
                    !.keyDir = found.keyDir,
                    !.convergenceSecret = found.secret,
                    !.checkSubpaths = HasSubpathSecrets(S, scan.dir, found.keyDir),
                    !.allResults = IF isDir THEN @ ELSE Append(@, result(found.secret))]
           ELSE IF scan.checkSubpaths /\ p \in DOMAIN S
                THEN IF isDir
                     THEN scan' = [scan EXCEPT
                              !.todo = Tail(@),
                              !.keyDir = p,
                              !.convergenceSecret = S[p]]
                     ELSE scan' = [scan EXCEPT
                              !.todo = Tail(@),
                              !.allResults = Append(@, result(S[p]))]
                ELSE scan' = [scan EXCEPT
                         !.todo = Tail(@),
                         !.allResults = IF isDir THEN @
                                        ELSE Append(@, result(scan.convergenceSecret))]
    /\ UNCHANGED <<driverVars, ter, pool, mu, encErr, rmain, moreVars>>
    /\ UNCHANGED <<codecVars, manifestVars, backupVars>>

\* scanning.go 125: return allResults, err
ScanReturn ==
    /\ scan.pc = "walk"
    /\ scan.todo = <<>>
    /\ scan' = [scan EXCEPT !.pc = "returned"]
    /\ UNCHANGED <<driverVars, ter, pool, mu, encErr, rmain, moreVars>>
    /\ UNCHANGED <<codecVars, manifestVars, backupVars>>

\* A Scanner with any Secrets map over a directory with any of the files.
ScanInit ==
    /\ \E S \in SecretMaps, fs \in SUBSET ScanFiles :
          scan = [NoScan EXCEPT !.dir = inPath, !.dirs = ScanDirs, !.walk = WalkPaths,
                                !.Secrets = S, !.files = fs]
    /\ archive = NoArchive
    /\ restored = NoRestore
    /\ saved = NoFile
    /\ loaded = NoLoad
    /\ rival = NoRival
    /\ ter = NoTer
    /\ pool = NoPool
    /\ mu = NoMutex
    /\ encErr = Nil
    /\ MoreIdle
    /\ rmain = NoRestoreMain
    /\ CodecInit(<<>>, <<>>)
    /\ ManifestIdle
    /\ BackupIdle

ScanNext ==
    \/ ScanStart
    \/ WalkFn
    \/ ScanReturn

ScanSpec == ScanInit /\ [][ScanNext]_vars

\* ------------------------------------------------- the Manifest's mutex
\* The goroutines that call into one Manifest, and what they call: the
\* operations of the Manifest, and the loop of RestoreMain over its entries.
Callers == 1 .. 2
ManifestOps ==
    {"Diff", "Commit", "GarbageCollectable", "Load", "Save", "GetEntry",
     "FindEntryWithHMAC", "Resolve", "RestoreMain"}

\* Whether the operation calls k.mutex.Lock() before it touches k.Entries:
\* keystore.go 48 (Diff), 88 (Commit), 130 (Load), 158 (Save), 183 (GetEntry),
\* 192 (FindEntryWithHMAC), 229 (Resolve, whose workers call GetEntry),
\* restore.go 154 (RestoreMain); GarbageCollectable (keystore.go 100-120)
\* ranges over k.Entries with no call of Lock.
LocksMutex(op) == op # "GarbageCollectable"

\* Whether the operation writes k.Entries: keystore.go 92, 95 (Commit), 151
\* (Load); the others read it.
WritesEntries(op) == op \in {"Commit", "Load"}

\* A goroutine calls an operation of the Manifest.
ManifestCall(t) ==
    /\ mu.tpc[t] = "idle"
    /\ \E op \in ManifestOps :
          mu' = [mu EXCEPT !.op[t] = op,
                           !.tpc[t] = IF LocksMutex(op) THEN "lock" ELSE "entries"]
    /\ UNCHANGED <<driverVars, scan, ter, pool, encErr, rmain, moreVars>>
    /\ UNCHANGED <<codecVars, manifestVars, backupVars>>

\* k.mutex.Lock() returns once no other goroutine holds the mutex.
MutexLock(t) ==
    /\ mu.tpc[t] = "lock"
    /\ mu.holder = 0
    /\ mu' = [mu EXCEPT !.holder = t, !.tpc[t] = "entries"]
    /\ UNCHANGED <<driverVars, scan, ter, pool, encErr, rmain, moreVars>>
    /\ UNCHANGED <<codecVars, manifestVars, backupVars>>

\* The operation reads or writes k.Entries, then returns; the deferred
\* k.mutex.Unlock() runs if the operation had locked.
EntriesAccess(t) ==
    /\ mu.tpc[t] = "entries"
    /\ mu' = [mu EXCEPT !.holder = IF mu.holder = t THEN 0 ELSE @,
                        !.tpc[t] = "idle",
                        !.op[t] = None]
    /\ UNCHANGED <<driverVars, scan, ter, pool, encErr, rmain, moreVars>>
    /\ UNCHANGED <<codecVars, manifestVars, backupVars>>

MutexInit ==
    /\ mu = NoMutex
    /\ archive = NoArchive
    /\ restored = NoRestore
    /\ saved = NoFile
    /\ loaded = NoLoad
    /\ rival = NoRival
    /\ scan = NoScan
    /\ ter = NoTer
    /\ pool = NoPool
    /\ encErr = Nil
    /\ MoreIdle
    /\ rmain = NoRestoreMain
    /\ CodecInit(<<>>, <<>>)
    /\ ManifestIdle
    /\ BackupIdle

MutexNext ==
    \/ \E t \in Callers : ManifestCall(t)
    \/ \E t \in Callers : MutexLock(t)
    \/ \E t \in Callers : EntriesAccess(t)

MutexSpec == MutexInit /\ [][MutexNext]_vars

\* ------------------------------------------- the TailExcludingReader alone
\* A TailExcludingReader over any source and with any tailSize, whose reader
\* calls Read with buffers of any length, also after EOF.
MaxTailSize == 3
MaxInto == 3

\* reader.go 240-264: one call of Read(into).
TerRead ==
    /\ ter.pc = "reading"
    /\ \E m \in 0 .. MaxInto :
          \E r \in TailRead(ter.src, m, ter.tailSize) :
              ter' = [ter EXCEPT
                         !.src = r.src,
                         !.got = @ \o r.bytes,
                         !.eof = @ \/ r.err = EOF,
                         !.last = [into |-> m, l |-> r.l, err |-> r.err],
                         !.sizes = @ \cup {m}]
    /\ UNCHANGED <<driverVars, scan, pool, mu, encErr, rmain, moreVars>>
    /\ UNCHANGED <<codecVars, manifestVars, backupVars>>

TerInit ==
    /\ \E data \in BytesUpTo(MaxLen), t \in 0 .. MaxTailSize :
          ter = [NoTer EXCEPT !.pc = "reading", !.src = TerSource(data),
                              !.tailSize = t]
    /\ archive = NoArchive
    /\ restored = NoRestore
    /\ saved = NoFile
    /\ loaded = NoLoad
    /\ rival = NoRival
    /\ scan = NoScan
    /\ pool = NoPool
    /\ mu = NoMutex
    /\ encErr = Nil
    /\ MoreIdle
    /\ rmain = NoRestoreMain
    /\ CodecInit(<<>>, <<>>)
    /\ ManifestIdle
    /\ BackupIdle

TerNext == TerRead

TerSpec == TerInit /\ [][TerNext]_vars

\* ------------------------------------------------------ the worker pool
\* RunWorkers(n, c, fn) with n = NumWorkers, a goroutine that sends the inputs
\* on the unbuffered channel c and then closes it (part_005 89-96,
\* keystore.go 209-215), and a function fn that returns nil for some inputs.
MaxInputs == 3
PoolInputs == {"a", "b", "c"}
PoolInputLists == UNION {[1 .. n -> PoolInputs] : n \in 0 .. MaxInputs}
fn(input) == IF input = "a" THEN Nil ELSE IF input = "b" THEN "error b" ELSE "entry c"

\* part_000 30 and the sender's `c <- input`: a worker at its range over c
\* receives the next input as the sender sends it.
PoolReceive(w) ==
    /\ pool.pc = "running"
    /\ pool.wpc[w] = "range"
    /\ pool.sent < Len(pool.inputs)
    /\ pool' = [pool EXCEPT !.sent = @ + 1,
                            !.win[w] = pool.sent + 1,
                            !.wpc[w] = "call"]
    /\ UNCHANGED <<driverVars, scan, ter, mu, encErr, rmain, moreVars>>
    /\ UNCHANGED <<codecVars, manifestVars, backupVars>>

\* The sender's deferred close(c), once every input was sent.
PoolClose ==
    /\ pool.pc = "running"
    /\ pool.sent = Len(pool.inputs)
    /\ ~pool.closed
    /\ pool' = [pool EXCEPT !.closed = TRUE]
    /\ UNCHANGED <<driverVars, scan, ter, mu, encErr, rmain, moreVars>>
    /\ UNCHANGED <<codecVars, manifestVars, backupVars>>

\* part_000 31-34: fn(input), and the switch on its value.
PoolCall(w) ==
    /\ pool.pc = "running"
    /\ pool.wpc[w] = "call"
    /\ pool' = [pool EXCEPT
                   !.calls[pool.win[w]] = @ + 1,
                   !.wval[w] = fn(pool.inputs[pool.win[w]]),
                   !.wpc[w] = IF fn(pool.inputs[pool.win[w]]) = Nil
                              THEN "range" ELSE "lock"]
    /\ UNCHANGED <<driverVars, scan, ter, mu, encErr, rmain, moreVars>>
    /\ UNCHANGED <<codecVars, manifestVars, backupVars>>

\* part_000 35: mutex.Lock()
PoolLock(w) ==
    /\ pool.pc = "running"
    /\ pool.wpc[w] = "lock"
    /\ pool.mutex = 0
    /\ pool' = [pool EXCEPT !.mutex = w, !.wpc[w] = "append"]
    /\ UNCHANGED <<driverVars, scan, ter, mu, encErr, rmain, moreVars>>
    /\ UNCHANGED <<codecVars, manifestVars, backupVars>>

\* part_000 36-37: results = append(results, val); mutex.Unlock()
PoolAppend(w) ==
    /\ pool.pc = "running"
    /\ pool.wpc[w] = "append"
    /\ pool' = [pool EXCEPT !.results = Append(@, pool.wval[w]),
                            !.mutex = 0,
                            !.wpc[w] = "range"]
    /\ UNCHANGED <<driverVars, scan, ter, mu, encErr, rmain, moreVars>>
    /\ UNCHANGED <<codecVars, manifestVars, backupVars>>

\* part_000 28, 30: the range ends when c is closed and empty; the deferred
\* group.Done() runs.
PoolExit(w) ==
    /\ pool.pc = "running"
    /\ pool.wpc[w] = "range"
    /\ pool.closed
    /\ pool' = [pool EXCEPT !.wpc[w] = "exited"]
    /\ UNCHANGED <<driverVars, scan, ter, mu, encErr, rmain, moreVars>>
    /\ UNCHANGED <<codecVars, manifestVars, backupVars>>

\* A RunWorkers that returns without waiting for the group.
PoolGroupNoWait == TRUE

\* part_000 26, 28, 42: group.Wait() returns once every worker has called
\* group.Done().
PoolGroupWait == \A w \in Workers : pool.wpc[w] = "exited"

\* part_000 42-43: group.Wait(); return results
PoolReturn ==
    /\ pool.pc = "running"
    /\ PoolGroupWait
    /\ pool' = [pool EXCEPT !.pc = "returned", !.returned = pool.results]
    /\ UNCHANGED <<driverVars, scan, ter, mu, encErr, rmain, moreVars>>
    /\ UNCHANGED <<codecVars, manifestVars, backupVars>>

PoolInit ==
    /\ \E ins \in PoolInputLists :
          pool = [NoPool EXCEPT !.pc = "running", !.inputs = ins,
                                !.wpc = [w \in Workers |-> "range"],
                                !.win = [w \in Workers |-> 0],
                                !.wval = [w \in Workers |-> Nil],
                                !.calls = [j \in DOMAIN ins |-> 0]]
    /\ archive = NoArchive
    /\ restored = NoRestore
    /\ saved = NoFile
    /\ loaded = NoLoad
    /\ rival = NoRival
    /\ scan = NoScan
    /\ ter = NoTer
    /\ mu = NoMutex
    /\ encErr = Nil
    /\ MoreIdle
    /\ rmain = NoRestoreMain
    /\ CodecInit(<<>>, <<>>)
    /\ ManifestIdle
    /\ BackupIdle

PoolNext ==
    \/ \E w \in Workers : PoolReceive(w)
    \/ PoolClose
    \/ \E w \in Workers : PoolCall(w)
    \/ \E w \in Workers : PoolLock(w)
    \/ \E w \in Workers : PoolAppend(w)
    \/ \E w \in Workers : PoolExit(w)
    \/ PoolReturn

PoolSpec == PoolInit /\ [][PoolNext]_vars

\* ------------------------------------------- RestoreMain's manifest file
ErrUnexpectedEOF == "unexpected EOF"
ErrHeader == "archive/tar: invalid tar header"
SyntaxError == "invalid character"
NoDecryptionKey == "Manifest does not contain the decryption key"
\* archive/tar reads the file in blocks of 512 bytes.
blockSize == 512

\* The entries a manifest file of this specification can hold.
MaxRestoreEntries == 3
RestoreHashes ==
    {[j \in 1 .. KeySize |-> IF j = n THEN 1 ELSE 0] : n \in 1 .. MaxRestoreEntries}
RestoreEntry(h) ==
    [LocalHash |-> h, Path |-> <<"d", "/", "a">>,
     Key |-> [j \in 1 .. KeySize |-> 0],
     HMAC |-> [j \in 1 .. HMACSize |-> IF h[1] = 1 THEN 2 ELSE 3]]
RestoreManifests == {[h \in D |-> RestoreEntry(h)] : D \in SUBSET RestoreHashes}

\* The bytes of the file Save writes: "{}" and a newline, then one line for
\* each entry, which for a 32-byte LocalHash, a 32-byte Key and a 64-byte HMAC
\* is 222 bytes and the bytes of the path.
EncodedLineSize(line) == 222 + Len(line.Path)
RECURSIVE LinesSize(_)
LinesSize(lines) ==
    IF lines = <<>> THEN 0 ELSE EncodedLineSize(Head(lines)) + LinesSize(Tail(lines))

\* A manifest file as it is on disk. A plaintext manifest ("json") has the
\* header line and the lines of its entries, and, when it was cut short, the
\* first byte of one more line (partial). A file that is neither ("other") has
\* junk bytes. A tar archive ("tar") has the one member BackupMain writes, with
\* the manifest it holds, encrypted or not, under the key pair pub, and is cut
\* nowhere ("whole"), inside the two blocks that end it ("inTrailer"), inside
\* the member's bytes ("inBody"), inside its header ("inHeader") or before the
\* first byte ("empty").
PlainFiles ==
    {[format |-> "json", Header |-> f.Header, lines |-> f.lines, partial |-> b,
      junk |-> 0, cut |-> "whole", encrypted |-> FALSE] :
        f \in UNION {{Save(m, order) : order \in Orderings(DOMAIN m)} :
                        m \in RestoreManifests},
        b \in BOOLEAN}
    \cup {[format |-> "json", Header |-> "", lines |-> <<>>, partial |-> b,
           junk |-> 0, cut |-> "whole", encrypted |-> FALSE] : b \in BOOLEAN}
OtherFiles ==
    {[format |-> "other", Header |-> "", lines |-> <<>>, partial |-> FALSE,
      junk |-> n, cut |-> "whole", encrypted |-> FALSE] : n \in {1, blockSize}}
TarFiles ==
    {[format |-> "tar", Header |-> f.Header, lines |-> f.lines, partial |-> FALSE,
      junk |-> 0, cut |-> c, encrypted |-> e] :
        f \in UNION {{Save(m, order) : order \in Orderings(DOMAIN m)} :
                        m \in RestoreManifests},
        c \in {"whole", "inTrailer", "inBody", "inHeader", "empty"},
        e \in BOOLEAN}
ManifestFiles == PlainFiles \cup OtherFiles \cup TarFiles

\* The number of bytes of a file that is not a tar archive.
FileSize(f) ==
    IF f.format = "other" THEN f.junk
    ELSE (IF f.Header = "" THEN 0 ELSE 3) + LinesSize(f.lines)
         + (IF f.partial THEN 1 ELSE 0)

\* Whether the file is a manifest or an archive as BackupMain left it.
Intact(f) ==
    CASE f.format = "json" -> f.Header # "" /\ ~f.partial
      [] f.format = "tar" -> f.cut = "whole"
      [] OTHER -> FALSE

\* The header of the member, its key wrapped under the first key pair.
MemberHeader(f) ==
    [PAXRecords |->
        IF f.encrypted
        THEN [n \in {"BLOBCRYPT.key", "BLOBCRYPT.key.type"} |->
                 IF n = "BLOBCRYPT.key"
                 THEN Base64Encode(EncryptKey([size |-> KeySize, id |-> 0], 1))
                 ELSE Base64Encode("oaep-aes256")]
        ELSE <<>>]

\* tarReader.Next() after `members` members were read. The first block of a
\* file is read whole or not at all: no byte is io.EOF, fewer than blockSize
\* bytes is io.ErrUnexpectedEOF, and a block that is no header is ErrHeader.
TarReaderNext(f, members) ==
    IF f.format # "tar"
    THEN [header |-> <<>>,
          err |-> IF FileSize(f) = 0 THEN EOF
                  ELSE IF FileSize(f) < blockSize THEN ErrUnexpectedEOF
                  ELSE ErrHeader]
    ELSE IF members = 0
    THEN CASE f.cut = "empty" -> [header |-> <<>>, err |-> EOF]
           [] f.cut = "inHeader" -> [header |-> <<>>, err |-> ErrUnexpectedEOF]
           [] OTHER -> [header |-> MemberHeader(f), err |-> Nil]
    ELSE [header |-> <<>>,
          err |-> IF f.cut = "inTrailer" THEN ErrUnexpectedEOF ELSE EOF]

\* manifest.Load(r) on the bytes of a plaintext manifest, keystore.go 129-154:
\* the decoder ends in io.EOF on no byte, in io.ErrUnexpectedEOF inside a
\* value and in a syntax error on bytes that are no JSON.
LoadReader(f, before) ==
    IF f.format = "other"
    THEN [called |-> TRUE, err |-> SyntaxError, Entries |-> before]
    ELSE IF f.Header = ""
    THEN [called |-> TRUE, err |-> IF f.partial THEN ErrUnexpectedEOF ELSE EOF,
          Entries |-> before]
    ELSE LET l == Load(f, before)
         IN  IF l.err = Nil /\ f.partial
             THEN [called |-> TRUE, err |-> ErrUnexpectedEOF, Entries |-> before]
             ELSE l

\* restore.go 84-91: the manifest file is opened and tarReader.Next() called.
RestoreMainOpen ==
    /\ rmain.pc = "open"
    /\ LET n == TarReaderNext(rmain.file, 0)
       IN  rmain' = [rmain EXCEPT !.header = n.header, !.tarErr = n.err,
                                  !.pc = IF n.err = ErrHeader THEN "fallback"
                                         ELSE "members"]
    /\ UNCHANGED <<driverVars, scan, ter, pool, mu, encErr, moreVars>>
    /\ UNCHANGED <<codecVars, manifestVars, backupVars>>

\* restore.go 92-97: Seek(0, io.SeekStart) and manifest.Load(manifestFile).
RestoreMainFallback ==
    /\ rmain.pc = "fallback"
    /\ LET l == LoadReader(rmain.file, rmain.Entries)
       IN  rmain' = [rmain EXCEPT !.loads = @ + 1,
                                  !.Entries = l.Entries,
                                  !.err = l.err,
                                  !.pc = IF l.err # Nil THEN "returned" ELSE "restore"]
    /\ UNCHANGED <<driverVars, scan, ter, pool, mu, encErr, moreVars>>
    /\ UNCHANGED <<codecVars, manifestVars, backupVars>>

\* restore.go 100-145, one turn of the loop: the key of an encrypted member is
\* decoded and unwrapped, DecryptAndCheckKey reads the member from the tar
\* reader, which ends in io.ErrUnexpectedEOF inside a member that was cut, and
\* manifest.Load reads what was decrypted, or the member itself when it has no
\* key; then tarReader.Next() again.
RestoreMainMember ==
    /\ rmain.pc = "members"
    /\ rmain.tarErr = Nil
    /\ LET records == rmain.header.PAXRecords
           keyOK == "BLOBCRYPT.key" \in DOMAIN records
           k == IF keyOK /\ rmain.privatekey # 0
                THEN DecryptKey(Base64Decode(records["BLOBCRYPT.key"]), rmain.privatekey)
                ELSE [key |-> NoKey, err |-> Nil]
           l == LoadReader(rmain.file, rmain.Entries)
           n == TarReaderNext(rmain.file, 1)
           fail == IF keyOK /\ rmain.privatekey = 0 THEN PrivateKeyRequired
                   ELSE IF k.err # Nil THEN k.err
                   ELSE IF rmain.file.cut = "inBody" THEN ErrUnexpectedEOF
                   ELSE l.err
       IN  IF fail # Nil
           THEN rmain' = [rmain EXCEPT !.err = fail, !.pc = "returned",
                                       !.loads = IF fail = l.err THEN @ + 1 ELSE @]
           ELSE rmain' = [rmain EXCEPT !.loads = @ + 1,
                                       !.Entries = l.Entries,
                                       !.header = n.header,
                                       !.tarErr = n.err]
    /\ UNCHANGED <<driverVars, scan, ter, pool, mu, encErr, moreVars>>
    /\ UNCHANGED <<codecVars, manifestVars, backupVars>>

\* restore.go 100: the loop ends when err is not nil, whatever it is.
RestoreMainLoopEnd ==
    /\ rmain.pc = "members"
    /\ rmain.tarErr # Nil
    /\ rmain' = [rmain EXCEPT !.pc = "restore"]
    /\ UNCHANGED <<driverVars, scan, ter, pool, mu, encErr, moreVars>>
    /\ UNCHANGED <<codecVars, manifestVars, backupVars>>

\* restore.go 148-206: every entry of the manifest is restored when the input
\* is a directory; else the entry with the HMAC of the input file is, and the
\* lack of one is an error. The encrypted files are there and decrypt.
RestoreMainEntries ==
    /\ rmain.pc = "restore"
    /\ IF rmain.inIsDir
       THEN rmain' = [rmain EXCEPT !.decrypted = DOMAIN rmain.Entries,
                                   !.ranged = TRUE,
                                   !.pc = "returned"]
       ELSE LET found == {h \in DOMAIN rmain.Entries :
                            rmain.Entries[h].HMAC = rmain.hmac}
            IN  rmain' = [rmain EXCEPT !.decrypted = found,
                                       !.err = IF found = {} THEN NoDecryptionKey
                                               ELSE Nil,
                                       !.pc = "returned"]
    /\ UNCHANGED <<driverVars, scan, ter, pool, mu, encErr, moreVars>>
    /\ UNCHANGED <<codecVars, manifestVars, backupVars>>

RestoreMainInit ==
    /\ \E f \in ManifestFiles, d \in BOOLEAN, priv \in RSAKeyPairs \cup {0},
          e \in RestoreHashes :
          rmain = [NoRestoreMain EXCEPT !.pc = "open", !.file = f, !.inIsDir = d,
                                        !.privatekey = priv,
                                        !.hmac = RestoreEntry(e).HMAC]
    /\ archive = NoArchive
    /\ restored = NoRestore
    /\ saved = NoFile
    /\ loaded = NoLoad
    /\ rival = NoRival
    /\ scan = NoScan
    /\ ter = NoTer
    /\ pool = NoPool
    /\ mu = NoMutex
    /\ encErr = Nil
    /\ MoreIdle
    /\ CodecInit(<<>>, <<>>)
    /\ ManifestIdle
    /\ BackupIdle

RestoreMainNext ==
    \/ RestoreMainOpen
    \/ RestoreMainFallback
    \/ RestoreMainMember
    \/ RestoreMainLoopEnd
    \/ RestoreMainEntries

RestoreMainSpec == RestoreMainInit /\ [][RestoreMainNext]_vars

\* ------------------------------------------------- the keys of a Writer
KeySizeIncorrect == "Key size is incorrect"
KeySizeError == "crypto/aes: invalid key size"
\* The lengths of the keys a caller can hand over, and the keys.
KeyLengths == {0, 16, 24, KeySize - 1, KeySize, KeySize + 1}
AnyKeys == {[size |-> n, id |-> d] : n \in KeyLengths, d \in 0 .. 1}

\* writer.go 25-30: NewWriter(source, key)
NewWriter ==
    /\ pc = "writer"
    /\ \E k \in AnyKeys :
        /\ key' = k
        /\ IF k.size # KeySize
           THEN /\ encErr' = KeySizeIncorrect
                /\ pc' = "returned"
           ELSE /\ encErr' = Nil
                /\ pc' = "encrypt"
    /\ path' = "NewWriter"
    /\ UNCHANGED <<plaintext, secret, streamVars, outs, hmacs, splits, blob,
                   tamper, rdErr, rdOut, rdBuf>>
    /\ UNCHANGED <<manifestVars, backupVars, driverVars, scan, ter, pool, mu, rmain,
                   moreVars>>

\* part_005 124-127, 209-212: blobcrypt.Writer{Source: sourceFile, Key: key}
WriterLiteral ==
    /\ pc = "writer"
    /\ \E k \in AnyKeys : key' = k
    /\ path' = "literal"
    /\ pc' = "encrypt"
    /\ UNCHANGED <<plaintext, secret, streamVars, outs, hmacs, splits, blob,
                   tamper, rdErr, rdOut, rdBuf>>
    /\ UNCHANGED <<manifestVars, backupVars, extVars>>

\* writer.go 35-38: aes.NewCipher(w.Key) fails and Encrypt returns its error.
EncryptKeyError ==
    /\ pc = "encrypt"
    /\ ~AesKeyOK(key)
    /\ outs' = Append(outs, <<>>)
    /\ hmacs' = Append(hmacs, <<>>)
    /\ encErr' = KeySizeError
    /\ pc' = "returned"
    /\ UNCHANGED <<plaintext, secret, key, streamVars, splits, blob, tamper, path,
                   rdErr, rdOut, rdBuf>>
    /\ UNCHANGED <<manifestVars, backupVars, driverVars, scan, ter, pool, mu, rmain,
                   moreVars>>

KeyInit ==
    /\ \E p \in BytesUpTo(MaxLen) : CodecAt(p, <<>>, "writer")
    /\ ManifestIdle
    /\ BackupIdle
    /\ ExtIdle

KeyNext ==
    \/ NewWriter
    \/ WriterLiteral
    \/ EncryptKeyError
    \/ EncryptCall

KeySpec == KeyInit /\ [][KeyNext]_vars

\* ------------------------------------------------ CheckKey and the source
\* part_007 44-84: where CheckKey leaves a source it was given at offset at.
\* A Seek that fails does not move the source; io.Copy from the LimitReader
\* leaves it where the body ends; the Seek before the last return puts it at 0.
CheckKeyPos(source, k, at) ==
    LET r == CheckKey(source, k)
    IN  IF r.err = SeekError THEN at
        ELSE IF r.err = FileSignatureInvalid THEN Len(source) - HMACSize
        ELSE 0

\* The sources CheckKey is given: the blob Encrypt writes for a plaintext, the
\* blob with one byte changed, and its proper prefixes.
GoodBlob(p) == EncryptBody(p, ComputeKey(p, <<>>)) \o EncryptHMAC(p, ComputeKey(p, <<>>))
CheckSources ==
    UNION {{GoodBlob(p)}
           \cup UNION {{[GoodBlob(p) EXCEPT ![j] = v] : v \in OtherValues(GoodBlob(p)[j])} :
                          j \in 1 .. Len(GoodBlob(p))}
           \cup {SubSeq(GoodBlob(p), 1, n) : n \in 0 .. Len(GoodBlob(p)) - 1} :
              p \in BytesUpTo(MaxCheckLen)}
CheckKeys == {ComputeKey(p, <<>>) : p \in BytesUpTo(MaxCheckLen)}

\* part_007 44-84: blobcrypt.CheckKey(source, key)
CheckKeyCall ==
    /\ ck.pc = "call"
    /\ LET r == CheckKey(ck.source, ck.key)
       IN  ck' = [ck EXCEPT !.offset = r.offset, !.err = r.err,
                            !.pos = CheckKeyPos(ck.source, ck.key, ck.at),
                            !.pc = "returned"]
    /\ UNCHANGED <<driverVars, scan, ter, pool, mu, encErr, rmain, rdir>>
    /\ UNCHANGED <<codecVars, manifestVars, backupVars>>

CheckInit ==
    /\ \E s \in CheckSources, k \in CheckKeys, at \in 0 .. MaxCheckLen + HMACSize :
          /\ at <= Len(s)
          /\ ck = [NoCheck EXCEPT !.pc = "call", !.source = s, !.key = k,
                                  !.at = at, !.pos = at]
    /\ rdir = NoRestoreDir
    /\ archive = NoArchive
    /\ restored = NoRestore
    /\ saved = NoFile
    /\ loaded = NoLoad
    /\ rival = NoRival
    /\ scan = NoScan
    /\ ter = NoTer
    /\ pool = NoPool
    /\ mu = NoMutex
    /\ encErr = Nil
    /\ rmain = NoRestoreMain
    /\ CodecInit(<<>>, <<>>)
    /\ ManifestIdle
    /\ BackupIdle

CheckNext == CheckKeyCall

CheckSpec == CheckInit /\ [][CheckNext]_vars

\* ----------------------------------------------- the scanner and hidden names
\* The roots Scan can be given, one of them with a name that begins with a
\* dot, and under a root the directories .d and a and the files .d/f, .h,
\* a/.g, a/c and b, in the lexical order filepath.Walk visits them.
TreeRoots == {<<"/", "r">>, <<"/", ".", "r">>}
TreeDirs(root) == {root, root \o <<"/", ".", "d">>, root \o <<"/", "a">>}
TreeFiles(root) ==
    {root \o <<"/", ".", "d", "/", "f">>, root \o <<"/", ".", "h">>,
     root \o <<"/", "a", "/", ".", "g">>, root \o <<"/", "a", "/", "c">>,
     root \o <<"/", "b">>}
TreeWalk(root) ==
    <<root,
      root \o <<"/", ".", "d">>,
      root \o <<"/", ".", "d", "/", "f">>,
      root \o <<"/", ".", "h">>,
      root \o <<"/", "a">>,
      root \o <<"/", "a", "/", ".", "g">>,
      root \o <<"/", "a", "/", "c">>,
      root \o <<"/", "b">>>>

\* Whether a path under root is hidden: its own name or that of a directory
\* between it and root begins with a dot.
RECURSIVE HiddenUnder(_, _)
HiddenUnder(root, p) ==
    IF p = root \/ Len(p) <= Len(root) THEN FALSE
    ELSE HasPrefix(FilepathBase(p), <<".">>) \/ HiddenUnder(root, FilepathDir(p))

\* part_005 48-52: a Scanner with no Secrets, or with the root's alone, over
\* either root with any of the files.
TreeScanInit ==
    /\ \E root \in TreeRoots, fs \in SUBSET TreeFiles(<<>>),
          S \in {[k \in K |-> <<"s">>] : K \in SUBSET {<<"/">>}} :
          scan = [NoScan EXCEPT !.dir = root, !.dirs = TreeDirs(root),
                                !.walk = TreeWalk(root), !.Secrets = S,
                                !.files = {root \o f : f \in fs}]
    /\ archive = NoArchive
    /\ restored = NoRestore
    /\ saved = NoFile
    /\ loaded = NoLoad
    /\ rival = NoRival
    /\ ter = NoTer
    /\ pool = NoPool
    /\ mu = NoMutex
    /\ encErr = Nil
    /\ MoreIdle
    /\ rmain = NoRestoreMain
    /\ CodecInit(<<>>, <<>>)
    /\ ManifestIdle
    /\ BackupIdle

TreeScanSpec == TreeScanInit /\ [][ScanNext]_vars

\* ------------------------------------------------- the directory restore
\* Here a path is the sequence of its elements: "/out/a" is <<"out", "a">>,
\* and an absolute path joined to another shows as an empty element.
OpenError == "permission denied"
CreateError == "cannot create"

\* filepath.Clean of an absolute path given by its elements: empty elements
\* and "." are dropped, ".." drops the element before it and is dropped
\* itself at the root.
RECURSIVE CleanFrom(_, _)
CleanFrom(done, rest) ==
    IF rest = <<>> THEN done
    ELSE IF Head(rest) \in {"", "."} THEN CleanFrom(done, Tail(rest))
    ELSE IF Head(rest) = ".."
         THEN CleanFrom(IF done = <<>> THEN done ELSE SubSeq(done, 1, Len(done) - 1),
                        Tail(rest))
    ELSE CleanFrom(Append(done, Head(rest)), Tail(rest))

\* filepath.Join(a, b) with a absolute: Clean(a + "/" + b).
JoinPath(a, b) == CleanFrom(<<>>, a \o b)

\* Whether the path lies inside the directory.
InsideDir(d, p) == Len(p) > Len(d) /\ SubSeq(p, 1, Len(d)) = d

\* The destination directory, the paths a loaded entry can carry ("a", "../x"
\* and "/e"), and what can be the matter with an entry: nothing, its blob is
\* not in the source directory, the blob cannot be opened, the destination
\* file cannot be created, the blob fails authentication, the destination
\* cannot be written.
outPath == <<"out">>
EntryPaths == {<<"a">>, <<"..", "x">>, <<"", "e">>}
EntryStates == {"ok", "missing", "openError", "createError", "tampered", "writeError"}
MaxDirEntries == 2
DirEntries == UNION {[1 .. n -> [Path : EntryPaths, state : EntryStates]] :
                        n \in 0 .. MaxDirEntries}

\* restore.go 16-31 restoreFile(inFile, entry, outPath): os.Create makes the
\* file or truncates it, NewReader authenticates the blob, Decrypt writes the
\* plaintext; the first error is returned.
restoreFile(entry, fileOut, dest) ==
    CASE entry.state = "createError" -> [err |-> CreateError, dest |-> dest]
      [] entry.state = "tampered" ->
            [err |-> FileSignatureInvalid, dest |-> MapPut(dest, fileOut, "")]
      [] entry.state = "writeError" ->
            [err |-> WriteError, dest |-> MapPut(dest, fileOut, "partial")]
      [] OTHER -> [err |-> Nil, dest |-> MapPut(dest, fileOut, "plaintext")]

\* A loop that goes on to the next entry after an error.
RangeAfterErrorContinues(err) == TRUE

\* restore.go 163-170: an error other than a missing blob returns from
\* RestoreMain, which ends the range over the entries.
RangeAfterError(err) == err = Nil

\* restore.go 157-171, one turn of the range over manifest.Entries: the blob
\* is opened, a blob that does not exist is reported and skipped, any other
\* error is returned, else restoreFile is called on filepath.Join(outPath,
\* entry.Path).
RestoreDirEntry ==
    /\ rdir.pc = "range"
    /\ rdir.idx <= Len(rdir.entries)
    /\ LET entry == rdir.entries[rdir.idx]
           fileOut == JoinPath(outPath, entry.Path)
           r == restoreFile(entry, fileOut, rdir.dest)
       IN  IF entry.state = "missing"
           THEN rdir' = [rdir EXCEPT !.idx = @ + 1, !.skipped = @ \cup {rdir.idx}]
           ELSE IF entry.state = "openError"
           THEN rdir' = [rdir EXCEPT !.err = OpenError, !.failed = rdir.idx,
                                     !.pc = IF RangeAfterError(OpenError)
                                            THEN "range" ELSE "returned",
                                     !.idx = @ + 1]
           ELSE rdir' = [rdir EXCEPT
                            !.dest = r.dest,
                            !.called = @ \cup {rdir.idx},
                            !.touched = IF entry.state = "createError" THEN @
                                        ELSE @ \cup {fileOut},
                            !.restored = IF r.err = Nil THEN @ \cup {rdir.idx} ELSE @,
                            !.err = IF r.err # Nil THEN r.err ELSE @,
                            !.failed = IF r.err # Nil THEN rdir.idx ELSE @,
                            !.pc = IF RangeAfterError(r.err) THEN "range"
                                   ELSE "returned",
                            !.idx = @ + 1]
    /\ UNCHANGED <<driverVars, scan, ter, pool, mu, encErr, rmain, ck>>
    /\ UNCHANGED <<codecVars, manifestVars, backupVars>>

\* restore.go 171, 206: the range is over and RestoreMain returns nil.
RestoreDirReturn ==
    /\ rdir.pc = "range"
    /\ rdir.idx > Len(rdir.entries)
    /\ rdir' = [rdir EXCEPT !.pc = "returned"]
    /\ UNCHANGED <<driverVars, scan, ter, pool, mu, encErr, rmain, ck>>
    /\ UNCHANGED <<codecVars, manifestVars, backupVars>>

\* The entries of a loaded manifest in the order the range delivers them; the
\* destination directory is empty or holds the file a.
RestoreDirInit ==
    /\ \E es \in DirEntries,
          d \in {EmptyMap, MapPut(EmptyMap, outPath \o <<"a">>, "old")} :
          rdir = [NoRestoreDir EXCEPT !.pc = "range", !.entries = es, !.dest = d]
    /\ ck = NoCheck
    /\ archive = NoArchive
    /\ restored = NoRestore
    /\ saved = NoFile
    /\ loaded = NoLoad
    /\ rival = NoRival
    /\ scan = NoScan
    /\ ter = NoTer
    /\ pool = NoPool
    /\ mu = NoMutex
    /\ encErr = Nil
    /\ rmain = NoRestoreMain
    /\ CodecInit(<<>>, <<>>)
    /\ ManifestIdle
    /\ BackupIdle

RestoreDirNext ==
    \/ RestoreDirEntry
    \/ RestoreDirReturn

RestoreDirSpec == RestoreDirInit /\ [][RestoreDirNext]_vars

\* ------------------------------------------------- Resolve on the pool
\* The entry the manifest can hold for a path: that of the file as it was at
\* modification time 0 with the content <<0>>.
StoredEntry(p) ==
    LET k == ComputeKey(<<0>>, <<>>)
    IN  [LocalHash |-> LocalHashSet(p, <<>>, [ModTime |-> 0, Size |-> 1]),
         Path |-> p, Key |-> k, HMAC |-> EncryptHMAC(<<0>>, k)]
StoredManifests ==
    {[h \in {StoredEntry(p).LocalHash : p \in D} |->
        StoredEntry(CHOOSE p \in D : StoredEntry(p).LocalHash = h)] :
            D \in SUBSET RelPaths}

\* The results of a scan that found any of the files, each with one of two
\* modification times, in the order of the walk.
RECURSIVE ResultLists(_)
ResultLists(todo) ==
    IF todo = <<>> THEN {<<>>}
    ELSE LET rest == ResultLists(Tail(todo))
         IN  rest \cup {<<[Path |-> Head(todo),
                          Info |-> [ModTime |-> t, Size |-> 1],
                          CS |-> <<>>]>> \o r : t \in 0 .. 1, r \in rest}

\* What a worker returns for a file it could not open.
OpenFailed(p) == [LocalHash |-> <<>>, Path |-> p, Key |-> NoKey, HMAC |-> <<>>]
IsError(v) == v.LocalHash = <<>>

\* A worker that opens the file whether or not the manifest has its hash.
ResolveAlwaysOpens(w) ==
    /\ pool.pc = "running"
    /\ pool.wpc[w] = "call"
    /\ pool' = [pool EXCEPT !.wpc[w] = "open"]
    /\ UNCHANGED <<driverVars, scan, ter, mu, encErr, rmain, moreVars>>
    /\ UNCHANGED <<codecVars, manifestVars, backupVars>>

\* keystore.go 218-232: the worker sets the LocalHash of the result it took
\* and calls GetEntry; on a hit it returns the entry as the manifest holds it.
ResolveGetEntry(w) ==
    /\ pool.pc = "running"
    /\ pool.wpc[w] = "call"
    /\ LET r == pool.inputs[pool.win[w]]
           localHash == LocalHashSet(r.Path, r.CS, r.Info)
       IN  IF ResolveHit(manifest, r)
           THEN pool' = [pool EXCEPT !.calls[pool.win[w]] = @ + 1,
                                     !.wval[w] = manifest[localHash],
                                     !.wpc[w] = "lock"]
           ELSE pool' = [pool EXCEPT !.wpc[w] = "open"]
    /\ UNCHANGED <<driverVars, scan, ter, mu, encErr, rmain, moreVars>>
    /\ UNCHANGED <<codecVars, manifestVars, backupVars>>

\* keystore.go 234-262: on a miss the file is opened and read twice, by
\* ComputeKey and by Encrypt into ioutil.Discard, and a new entry returned; a
\* file that cannot be opened is an error.
ResolveNewEntry(w) ==
    /\ pool.pc = "running"
    /\ pool.wpc[w] = "open"
    /\ LET r == pool.inputs[pool.win[w]]
       IN  pool' = [pool EXCEPT
                       !.calls[pool.win[w]] = @ + 1,
                       !.opened = @ \cup {r.Path},
                       !.wval[w] = IF r.Path \in DOMAIN tree
                                   THEN ResolveOne(manifest, tree, r)
                                   ELSE OpenFailed(r.Path),
                       !.wpc[w] = "lock"]
    /\ UNCHANGED <<driverVars, scan, ter, mu, encErr, rmain, moreVars>>
    /\ UNCHANGED <<codecVars, manifestVars, backupVars>>

\* keystore.go 265-275: the entries among the workers' results, or the first
\* error among them and no entry.
ResolveReturn ==
    /\ pool.pc = "returned"
    /\ LET errors == {j \in DOMAIN pool.returned : IsError(pool.returned[j])}
       IN  /\ entries' = IF errors = {} THEN pool.returned ELSE <<>>
           /\ pool' = [pool EXCEPT !.pc = "resolved",
                                   !.err = IF errors = {} THEN Nil ELSE OpenError]
    /\ UNCHANGED <<manifest, prior, prefix, diff, collectable, mpc>>
    /\ UNCHANGED <<driverVars, scan, ter, mu, encErr, rmain, moreVars>>
    /\ UNCHANGED <<codecVars, backupVars>>

\* A manifest with any of the stored entries, the results of a scan, and the
\* files as they are when the workers get to them: removed since the scan, or
\* with either content.
ResolveInit ==
    /\ manifest \in StoredManifests
    /\ prior = EmptyMap
    /\ prefix = <<>>
    /\ entries = <<>>
    /\ diff = NoDiff
    /\ collectable = <<>>
    /\ mpc = "idle"
    /\ tree \in UNION {[D -> [content : Contents, mtime : {0}]] : D \in SUBSET RelPaths}
    /\ edits = 0
    /\ store = EmptyMap
    /\ disk = NoFileOnDisk
    /\ hist = NoHistory
    /\ runs = 0
    /\ rpc = "idle"
    /\ results = <<>>
    /\ sent = 0
    /\ wpc = [w \in Workers |-> "idle"]
    /\ wentry = [w \in Workers |-> NoEntry]
    /\ wsrc = [w \in Workers |-> <<>>]
    /\ errs = <<>>
    /\ \E rs \in ResultLists(WalkOrder) :
          pool = [NoPool EXCEPT !.pc = "running", !.inputs = rs,
                                !.wpc = [w \in Workers |-> "range"],
                                !.win = [w \in Workers |-> 0],
                                !.wval = [w \in Workers |-> NoEntry],
                                !.calls = [j \in DOMAIN rs |-> 0]]
    /\ archive = NoArchive
    /\ restored = NoRestore
    /\ saved = NoFile
    /\ loaded = NoLoad
    /\ rival = NoRival
    /\ scan = NoScan
    /\ ter = NoTer
    /\ mu = NoMutex
    /\ encErr = Nil
    /\ MoreIdle
    /\ rmain = NoRestoreMain
    /\ CodecInit(<<>>, <<>>)

ResolveNext ==
    \/ \E w \in Workers : PoolReceive(w)
    \/ PoolClose
    \/ \E w \in Workers : ResolveGetEntry(w)
    \/ \E w \in Workers : ResolveNewEntry(w)
    \/ \E w \in Workers : PoolLock(w)
    \/ \E w \in Workers : PoolAppend(w)
    \/ \E w \in Workers : PoolExit(w)
    \/ PoolReturn
    \/ ResolveReturn

ResolveSpec == ResolveInit /\ [][ResolveNext]_vars

\* --------------------------------------- the operations that write Entries
\* How long the lists are that the callers of the Manifest hand to it.
MaxCallLen == 1

\* The entries of the diffs and streams: two fingerprints, each with either
\* HMAC.
KeyedEntries ==
    [LocalHash : PersistHashes, Path : {<<"d", "/", "a">>},
     Key : {[j \in 1 .. KeySize |-> 0]}, HMAC : PersistHMACs]
KeyedLists == UNION {[1 .. n -> KeyedEntries] : n \in 0 .. MaxCallLen}
KeyedDiffs == [Change : KeyedLists, Remove : KeyedLists]

\* The lines of a stream: encoded entries, and lines whose LocalHash or HMAC
\* is too short.
KeyedLines ==
    {EncodeEntry(e) : e \in KeyedEntries}
        \cup {[EncodeEntry(e) EXCEPT !.LocalHash = MarshalJSON(<<0>>)] :
                  e \in {CHOOSE x \in KeyedEntries : TRUE}}
        \cup {[EncodeEntry(e) EXCEPT !.HMAC = MarshalJSON(<<>>)] :
                  e \in {CHOOSE x \in KeyedEntries : TRUE}}
KeyedStreams ==
    [exists : {TRUE}, Header : {"{}", ""},
     lines : UNION {[1 .. n -> KeyedLines] : n \in 0 .. MaxCallLen + 1}]

\* keystore.go 123-126 Init: an empty Entries map. Each call leaves in prior
\* the map it found.
CallInit ==
    /\ manifest' = EmptyMap
    /\ mpc' = "Init"
    /\ prior' = manifest
    /\ UNCHANGED <<prefix, entries, diff, collectable>>
    /\ loaded' = NoLoad
    /\ UNCHANGED <<archive, restored, saved, rival, toolVars>>
    /\ UNCHANGED <<codecVars, backupVars>>

\* keystore.go 129-154 Load(r)
CallLoad(file) ==
    /\ loaded' = Load(file, manifest)
    /\ manifest' = loaded'.Entries
    /\ mpc' = IF mpc = "idle" /\ loaded'.err # Nil THEN "idle" ELSE "Load"
    /\ prior' = manifest
    /\ UNCHANGED <<prefix, entries, diff, collectable>>
    /\ UNCHANGED <<archive, restored, saved, rival, toolVars>>
    /\ UNCHANGED <<codecVars, backupVars>>

\* A Commit that files every changed entry under its HMAC.
RECURSIVE CommitChangeByHMAC(_, _)
CommitChangeByHMAC(m, ch) ==
    IF ch = <<>> THEN m
    ELSE CommitChangeByHMAC(MapPut(m, Head(ch).HMAC, Head(ch)), Tail(ch))
CallCommitByHMAC(d) ==
    /\ mpc # "idle" \/ d.Change = <<>>
    /\ manifest' = CommitRemove(CommitChangeByHMAC(manifest, d.Change), d.Remove)
    /\ mpc' = "Commit"
    /\ prior' = manifest
    /\ UNCHANGED <<prefix, entries, diff, collectable>>
    /\ loaded' = NoLoad
    /\ UNCHANGED <<archive, restored, saved, rival, toolVars>>
    /\ UNCHANGED <<codecVars, backupVars>>

\* keystore.go 87-97 Commit(diff); an assignment to an entry of the nil map
\* panics.
CallCommit(d) ==
    /\ mpc # "idle" \/ d.Change = <<>>
    /\ manifest' = Commit(manifest, d)
    /\ mpc' = "Commit"
    /\ prior' = manifest
    /\ UNCHANGED <<prefix, entries, diff, collectable>>
    /\ loaded' = NoLoad
    /\ UNCHANGED <<archive, restored, saved, rival, toolVars>>
    /\ UNCHANGED <<codecVars, backupVars>>

\* A Manifest declared and not yet initialised (part_005 59, restore.go 89):
\* its Entries map is nil until Init or a Load without error makes one.
KeyedInit ==
    /\ ManifestIdle
    /\ CodecInit(<<>>, <<>>)
    /\ BackupIdle
    /\ ExtIdle

KeyedNext ==
    \/ CallInit
    \/ \E file \in KeyedStreams : CallLoad(file)
    \/ \E d \in KeyedDiffs : CallCommit(d)

KeyedSpec == KeyedInit /\ [][KeyedNext]_vars

\* ------------------------------------- every operation of the Manifest
\* The files of a scanned directory, in the order of the walk, and the entries
\* a manifest can hold for them: the file as it was at modification time 0,
\* with either content.
FrameWalk == << <<"d", "/", "x">>, <<"d", "/", "y">> >>
FrameEntries ==
    {[LocalHash |-> LocalHashSet(FrameWalk[j], <<>>, [ModTime |-> 0, Size |-> 1]),
      Path |-> FrameWalk[j],
      Key |-> ComputeKey(c, <<>>),
      HMAC |-> EncryptHMAC(c, ComputeKey(c, <<>>))] :
        j \in DOMAIN FrameWalk, c \in Contents}
FrameLists == UNION {[1 .. n -> FrameEntries] : n \in 0 .. MaxCallLen}
FrameDirs == {<<"d">>, <<"e">>}

\* What the caller holds after a call: the name of the operation and what it
\* returned, in the variable of its type.
Returned(op, es, d, c, f) ==
    /\ mpc' = op
    /\ prior' = manifest
    /\ entries' = es
    /\ diff' = d
    /\ collectable' = c
    /\ saved' = f
    /\ UNCHANGED <<prefix, loaded, archive, restored, rival, toolVars>>
    /\ UNCHANGED <<codecVars, backupVars>>

\* A Diff that also applies what it found.
CallDiffCommits(dir, es) ==
    /\ \E d \in Diff(manifest, dir, es) :
          /\ manifest' = Commit(manifest, d)
          /\ Returned("Diff", <<>>, d, <<>>, NoFile)

\* keystore.go 47-84 Diff(path, entries)
CallDiff(dir, es) ==
    /\ \E d \in Diff(manifest, dir, es) : Returned("Diff", <<>>, d, <<>>, NoFile)
    /\ UNCHANGED manifest

\* keystore.go 100-120 GarbageCollectable(entries)
CallGarbageCollectable(es) ==
    /\ Returned("GarbageCollectable", <<>>, NoDiff,
                GarbageCollectable(manifest, es), NoFile)
    /\ UNCHANGED manifest

\* keystore.go 182-187 GetEntry(localHash): the entry, if there is one.
CallGetEntry(localHash) ==
    /\ Returned("GetEntry",
                IF localHash \in DOMAIN manifest THEN <<manifest[localHash]>> ELSE <<>>,
                NoDiff, <<>>, NoFile)
    /\ UNCHANGED manifest

\* keystore.go 191-202 FindEntryWithHMAC(hmac): a copy of the first entry
\* with the HMAC that the range over the map comes to, or nil.
CallFindEntryWithHMAC(hmac) ==
    /\ LET found == {h \in DOMAIN manifest : manifest[h].HMAC = hmac}
       IN  \E es \in IF found = {} THEN {<<>>} ELSE {<<manifest[h]>> : h \in found} :
              Returned("FindEntryWithHMAC", es, NoDiff, <<>>, NoFile)
    /\ UNCHANGED manifest

\* keystore.go 157-179 Save(path)
CallSave ==
    /\ \E order \in Orderings(DOMAIN manifest) :
          Returned("Save", <<>>, NoDiff, <<>>, Save(manifest, order))
    /\ UNCHANGED manifest

\* keystore.go 205-276 Resolve(results): the entries in the order the workers
\* finished, or nil when a file could not be opened; what Encrypt writes goes
\* to ioutil.Discard.
CallResolve(rs) ==
    /\ \E es \in IF ResolveFails(manifest, tree, rs) THEN {<<>>}
                 ELSE Resolve(manifest, tree, rs) :
          Returned("Resolve", es, NoDiff, <<>>, NoFile)
    /\ UNCHANGED manifest

\* manifest.Commit(diff) with the diff the caller holds.
CallCommitDiff == CallCommit(diff)

\* An initialised Manifest, a directory in which the first file has changed
\* its content and the second is gone, and a store with or without a blob.
FrameInit ==
    /\ manifest = EmptyMap
    /\ prior = EmptyMap
    /\ prefix = <<>>
    /\ entries = <<>>
    /\ diff = NoDiff
    /\ collectable = <<>>
    /\ mpc = "Init"
    /\ tree = [p \in {FrameWalk[1]} |-> [content |-> <<1>>, mtime |-> 0]]
    /\ edits = 0
    /\ store \in {EmptyMap} \cup
          {[n \in {URLChars(e.HMAC)} |-> EncryptBody(<<0>>, e.Key) \o e.HMAC] :
              e \in {x \in FrameEntries : x.Key = ComputeKey(<<0>>, <<>>)}}
    /\ disk = NoFileOnDisk
    /\ runs = 0
    /\ rpc = "idle"
    /\ results = <<>>
    /\ sent = 0
    /\ wpc = [w \in Workers |-> "idle"]
    /\ wentry = [w \in Workers |-> NoEntry]
    /\ wsrc = [w \in Workers |-> <<>>]
    /\ errs = <<>>
    /\ hist = NoHistory
    /\ CodecInit(<<>>, <<>>)
    /\ ExtIdle

FrameNext ==
    \/ CallInit
    \/ CallCommitDiff
    \/ \E dir \in FrameDirs, es \in FrameLists : CallDiff(dir, es)
    \/ \E es \in FrameLists : CallGarbageCollectable(es)
    \/ \E e \in FrameEntries : CallGetEntry(e.LocalHash)
    \/ \E e \in FrameEntries : CallFindEntryWithHMAC(e.HMAC)
    \/ CallSave
    \/ \E rs \in ResultLists(FrameWalk) : CallResolve(rs)

FrameSpec == FrameInit /\ [][FrameNext]_vars

\* ----------------------------------------------------------------- claims
\* C1. Round trip: NewReader on the bytes Encrypt wrote under ComputeKey(p, cs)
\* succeeds and Decrypt writes exactly p, for every plaintext, secret and
\* interleaving of the stream's goroutine with its consumer.
C1_RoundTrip ==
    (pc = "done" /\ path = "reader" /\ tamper = None)
        => (rdErr = Nil /\ rdOut = plaintext)

C1_Witness ==
    /\ pc = "done" /\ path = "reader" /\ tamper = None
    /\ Len(plaintext) > cipherStreamBufferSize
    /\ secret # <<>>
    /\ rdOut = plaintext

\* C2. Authentication: NewReader on a blob with exactly one byte changed yields
\* no Reader and fails with the error HMAC Invalid.
C2_Authentication ==
    (pc = "done" /\ path = "reader" /\ tamper = "mutate")
        => (rdErr = HMACInvalid /\ rdOut = <<>>)

\* The trailer of b is the HMAC of the bytes before it under the key derived
\* from k.
TrailerAuthentic(b, k) ==
    /\ Len(b) >= HMACSize
    /\ SubSeq(b, Len(b) - HMACSize + 1, Len(b))
         = HmacSum(shaSlice256(shaSlice256(k)), SubSeq(b, 1, Len(b) - HMACSize))

\* C3. DecryptAndCheckKey returns a nil reader and HMAC Invalid, and hands out no
\* plaintext byte, for every input whose last HMACSize bytes are not the HMAC of
\* the bytes before them (inputs shorter than a trailer included).
C3_NoPlaintextOnFailure ==
    (pc = "done" /\ path = "dack" /\ ~TrailerAuthentic(blob, key))
        => (rdErr = HMACInvalid /\ rdOut = <<>> /\ ~rdBuf.returned)

C3_Witness ==
    /\ pc = "done" /\ path = "dack" /\ tamper = "mutate"
    /\ ~TrailerAuthentic(blob, key)
    /\ rdBuf.mem # <<>>
    /\ rdErr = HMACInvalid /\ rdOut = <<>>

\* A blob that was written completely for an entry: the body Encrypt writes
\* under the entry's key, then a trailer that is the entry's HMAC.
BlobComplete(b, e) ==
    /\ Len(b) >= HMACSize
    /\ SubSeq(b, Len(b) - HMACSize + 1, Len(b)) = e.HMAC
    /\ e.HMAC = HmacSum(shaSlice256(shaSlice256(e.Key)),
                        SubSeq(b, 1, Len(b) - HMACSize))

\* C4. After any sequence of backup runs over a store that only the driver
\* touches, aborted runs included, every entry of the manifest file names a
\* blob of the store that was written completely: body, then a trailer equal
\* to the entry's HMAC.
C4_ManifestNamesCompleteBlobs ==
    (hist.pristine /\ disk.exists) =>
        \A h \in DOMAIN disk.entries :
            LET e == disk.entries[h]
            IN  /\ URLChars(e.HMAC) \in DOMAIN store
                /\ BlobComplete(store[URLChars(e.HMAC)], e)

\* C5. In every run all workers have exited, so every blob write of the run has
\* finished, before the manifest is committed and saved; and the manifest has
\* been saved before a blob is unlinked.
C5_Ordering ==
    /\ (rpc \in {"commit", "save", "gc", "unlink"} \/ hist.committed \/ hist.saved)
          => (/\ \A w \in Workers : wpc[w] = "exited"
              /\ sent = Len(diff.Change))
    /\ hist.unlinked => hist.saved
    /\ hist.saved => hist.committed

C5_Witness ==
    /\ rpc = "idle"
    /\ hist.last = "done"
    /\ hist.wrote /\ hist.saved /\ hist.unlinked
    /\ Len(diff.Change) > 0

\* C6. GC safety: after Commit(d), GarbageCollectable(d.Remove) is exactly the
\* entries of d.Remove, in their order, whose HMAC no entry still in the manifest
\* has; a removed entry that shares its HMAC with a retained one is not returned.
C6_GCSafety ==
    mpc = "collected" =>
        collectable = SelectSeq(diff.Remove,
                          LAMBDA e : \A h \in DOMAIN manifest : manifest[h].HMAC # e.HMAC)

C6_Witness ==
    /\ mpc = "collected"
    /\ \E j \in DOMAIN diff.Remove :
          \E h \in DOMAIN manifest : manifest[h].HMAC = diff.Remove[j].HMAC
    /\ collectable # <<>>
    /\ Len(collectable) < Len(diff.Remove)

\* C7. Diff correctness: after Commit(Diff(prefix, E)) the fingerprint of every
\* entry of E is in the manifest, every entry that was under prefix and whose
\* fingerprint is not in E is absent, and every entry whose path is outside
\* prefix is unchanged.
C7_DiffCorrectness ==
    mpc \in {"committed", "collected"} =>
        /\ \A j \in DOMAIN entries : entries[j].LocalHash \in DOMAIN manifest
        /\ \A h \in DOMAIN prior :
              (/\ HasPrefix(prior[h].Path, DiffPath(prefix))
               /\ \A j \in DOMAIN entries : entries[j].LocalHash # h)
                  => h \notin DOMAIN manifest
        /\ \A h \in DOMAIN prior :
              ~HasPrefix(prior[h].Path, DiffPath(prefix))
                  => (h \in DOMAIN manifest /\ manifest[h] = prior[h])

\* C8. Idempotent backup: a run on a source directory that was not edited since
\* the run before it began, that run having gone through to its end (and the
\* first run having started with no manifest file and an empty store), finds
\* an empty diff, writes no blob, does not save the manifest and unlinks
\* nothing.
C8_IdempotentBackup ==
    (hist.pristine /\ hist.unchanged /\ ~hist.dirty) =>
        /\ ~hist.wrote /\ ~hist.saved /\ ~hist.unlinked
        /\ rpc \notin {"load", "resolve", "diff"} => IsEmpty(diff)

\* C9. If a worker returned a non-nil error the driver neither commits, nor
\* saves, nor unlinks: the manifest file is what it was before the run.
C9_WorkerErrorAborts ==
    Len(errs) > 0 =>
        /\ ~hist.committed /\ ~hist.saved /\ ~hist.unlinked
        /\ disk = hist.diskAtStart
        /\ rpc \in {"workers", "errs", "idle"}

C9_Witness ==
    /\ Len(errs) > 0
    /\ rpc = "idle"
    /\ hist.last = "fatal"
    /\ hist.wrote
    /\ disk.exists

C11_TrailerIsReturnedHMAC ==
    \A n \in 1 .. Len(outs) :
        hmacs[n] # <<>> =>
            LET written == outs[n]
                body == SubSeq(written, 1, Len(written) - HMACSize)
            IN  /\ Len(written) >= HMACSize
                /\ hmacs[n] = SubSeq(written, Len(written) - HMACSize + 1, Len(written))
                /\ hmacs[n] = HmacSum(shaSlice256(shaSlice256(key)), body)
                /\ body = XORKeyStream(key, 0, plaintext)

C11_Witness ==
    /\ Len(outs) >= 1
    /\ hmacs[1] # <<>>
    /\ Len(plaintext) > cipherStreamBufferSize
    /\ Len(splits) >= 1
    /\ splits[1] > 2
    /\ hmacs[1] = SubSeq(outs[1], Len(outs[1]) - HMACSize + 1, Len(outs[1]))

\* C12. Blob length: a successful Writer.Encrypt writes exactly |plaintext| +
\* HMACSize bytes; the bytes streamed into the member of the sealed archive
\* number what its tar header declares, the size of the manifest file plus
\* HMACSize.
C12_BlobLength ==
    /\ \A n \in 1 .. Len(outs) :
          hmacs[n] # <<>> => Len(outs[n]) = Len(plaintext) + HMACSize
    /\ (archive.written /\ Len(outs) = 1 /\ hmacs[1] # <<>>)
          => (/\ Len(outs[1]) = archive.Size
              /\ archive.Size = Len(plaintext) + HMACSize)
    /\ archive.closed => (archive.err = Nil /\ Len(archive.body) = archive.Size)

C12_Witness ==
    /\ archive.closed
    /\ archive.err = Nil
    /\ Len(plaintext) > cipherStreamBufferSize
    /\ Len(archive.body) = Len(plaintext) + HMACSize

\* The public key the archive's key record was wrapped under.
SealedFor == Base64Decode(archive.PAXRecords["BLOBCRYPT.key"]).pub

\* C13. Seal/restore round trip: restoring an archive the backup driver sealed,
\* with the private key that matches the public key it was sealed under,
\* succeeds, and what Manifest.Load is given to read is exactly the bytes of
\* the manifest file that was sealed, so the entries it yields are those of
\* that file.
C13_SealRestoreRoundTrip ==
    (pc = "restored" /\ restored.priv = SealedFor)
        => (/\ restored.called
            /\ restored.err = Nil
            /\ restored.bytes = plaintext)

C13_Witness ==
    /\ pc = "restored"
    /\ restored.priv = SealedFor
    /\ restored.called
    /\ Len(plaintext) > cipherStreamBufferSize
    /\ restored.bytes = plaintext

\* C14. Manifest round trip: Save followed by Load of the saved file yields no
\* error and an entries map equal to the original (the same fingerprints as
\* keys, the same path, key and HMAC per entry), whatever the order in which
\* Save visited the map.
C14_SaveLoadRoundTrip ==
    mpc = "loaded" => (loaded.err = Nil /\ loaded.Entries = manifest)

\* The bytes the stream has read from its source, in read order.
ReadSoFar == SubSeq(src.data, 1, src.pos)

IsPrefix(a, b) == Len(a) <= Len(b) /\ SubSeq(b, 1, Len(a)) = a

\* C15. The stream emits in source order: what the consumer got from the
\* slices it received, in receive order, is the CTR transform of the bytes read
\* from the source in read order; once the channel is closed with Error unset
\* and no cancellation, no byte was reordered, duplicated or dropped.
C15_EmitsInSourceOrder ==
    pc \in {"encrypting", "decrypting"} =>
        /\ IsPrefix(out, XORKeyStream(key, 0, ReadSoFar))
        /\ IsPrefix(macMsg, XORKeyStream(key, 0, ReadSoFar))
        /\ (cpc = "after" /\ csError = Nil /\ ~ctxDone)
              => out = XORKeyStream(key, 0, ReadSoFar)

RECURSIVE SumLen(_)
SumLen(slices) == IF slices = <<>> THEN 0 ELSE Head(slices).len + SumLen(Tail(slices))

\* The bytes the goroutine has sent so far: those still in the channel, those
\* of the slice the consumer is working on, those it has written.
BytesEmitted ==
    SumLen(channel) + (IF cpc \in {"mac", "write"} THEN held.len ELSE 0) + Len(out)

\* C16. End states of the stream: when the source ends with EOF the goroutine
\* closes the channel and Error stays unset; when the source returns another
\* error it sets Error to it and closes the channel; in both cases every byte
\* read was sent first, and the goroutine has finished, so Error has its final
\* value, whenever the consumer finds the channel closed.
C16_EndStates ==
    /\ (pc \in {"encrypting", "decrypting"} /\ closed /\ ~ctxDone) =>
          /\ ppc = "done"
          /\ rd.err \in {EOF, ReadError}
          /\ csError = (IF rd.err = EOF THEN Nil ELSE rd.err)
          /\ BytesEmitted = src.pos
    /\ cpc = "after" => (closed /\ ppc = "done" /\ channel = <<>>)

C16_Witness ==
    /\ pc = "encrypting"
    /\ cpc = "after"
    /\ closed /\ ~ctxDone
    /\ csError = ReadError
    /\ rd.l > 0
    /\ src.pos > cipherStreamBufferSize

\* The slices that are in the channel or that the consumer holds (it holds a
\* slice until it has received the next one).
InUse ==
    {channel[j] : j \in DOMAIN channel}
    \cup (IF cpc \in {"recv", "mac", "write"} /\ held.len > 0 THEN {held} ELSE {})

\* C18. Buffer rotation is safe: the goroutine never reads into or enciphers a
\* buffer whose slice is still in the channel or still held by the consumer,
\* for every source behaviour the io.Reader contract allows and every
\* interleaving; there are at most three buffers per stream.
C18_BufferRotationSafe ==
    /\ (Streaming /\ ppc \in {"read", "xor"})
          => \A s \in InUse : s.buf # BufIndex(i)
    /\ Cardinality(DOMAIN bufs) <= cipherStreamBufferCount

\* C19. No goroutine is leaked: on every return path of Encrypt and Decrypt
\* the goroutine of the stream ends and closes the channel, provided each read
\* of the source returns. After source EOF or a read error the call returns
\* only once the channel is closed (EncryptReturn, DecryptReturn); after an
\* output write error the call has returned and its deferred cancel() has
\* run, and from then on the goroutine must reach its end.
C19_NoProducerLeak ==
    (pc = "cancelled" /\ ctxDone) ~> (ppc = "done" /\ closed)

\* C17. Convergence-secret divergence: for one plaintext and two different
\* convergence secrets the keys ComputeKey returns differ, and the blobs
\* Writer.Encrypt writes under them differ.
C17_SecretDivergence ==
    rival.set =>
        /\ secret # rival.secret
        /\ pc # "computeKey" => key # rival.key
        /\ Len(outs) = 2 => outs[2] # rival.blob

C17_Witness ==
    /\ rival.set
    /\ Len(outs) = 2
    /\ Len(plaintext) > cipherStreamBufferSize
    /\ Len(outs[2]) = Len(rival.blob)
    /\ outs[2] # rival.blob
    /\ key # rival.key

\* C20. For a Change entry whose blob does not exist yet, the worker reports
\* success only if Writer.Encrypt completed without error (body and trailer
\* are in the store) and the HMAC it returned equals the entry's HMAC; an HMAC
\* mismatch or an encryption error makes the worker return an error.
C20_WorkerReportsEncryptFailures ==
    [][\A w \in Workers :
          (wpc[w] = "encrypt" /\ wpc'[w] = "idle" /\ errs' = errs) =>
              LET returned == EncryptHMAC(wsrc[w], wentry[w].Key)
                  name == URLChars(wentry[w].HMAC)
              IN  /\ store'[name] = EncryptBody(wsrc[w], wentry[w].Key) \o returned
                  /\ HmacEqual(wentry[w].HMAC, returned)]_vars

\* C21. At-most-once blob write: within one run of BackupMain at most one
\* worker creates and writes the blob of a given name, under every
\* interleaving of the workers: a worker that creates a blob never finds that
\* another worker of the run has created it already, also when two Change
\* entries carry one HMAC.
C21_AtMostOnceBlobWrite ==
    [][\A w \in Workers :
          (wpc[w] = "create" /\ wpc'[w] = "encrypt") =>
              URLChars(wentry[w].HMAC) \notin DOMAIN store]_vars

\* C22. Diff output: Change is exactly the entries of E whose fingerprint is
\* not a key of the manifest, in their order; Remove is exactly the entries of
\* the manifest under prefix (with its trailing slash) whose fingerprint is
\* not in E; an entry of E whose fingerprint is a key of the manifest, under
\* the prefix or outside it, is in neither list.
C22_DiffOutput ==
    mpc = "diffed" =>
        LET removed == {diff.Remove[j] : j \in DOMAIN diff.Remove}
            changed == {diff.Change[j] : j \in DOMAIN diff.Change}
        IN  /\ diff.Change =
                  SelectSeq(entries, LAMBDA e : e.LocalHash \notin DOMAIN prior)
            /\ removed =
                  {prior[h] : h \in {g \in DOMAIN prior :
                      /\ HasPrefix(prior[g].Path, DiffPath(prefix))
                      /\ \A j \in DOMAIN entries : entries[j].LocalHash # g}}
            /\ Len(diff.Remove) = Cardinality(removed)
            /\ \A j \in DOMAIN entries :
                  entries[j].LocalHash \in DOMAIN prior =>
                      entries[j] \notin changed \cup removed

\* The secret the claim gives a path: that of the longest key of the map that
\* is the path, or a directory above it, or the root; the empty string when
\* there is none.
Governing(S, p) ==
    LET cands == {k \in DOMAIN S :
                     k = p \/ k = <<"/">> \/ HasPrefix(p, k \o <<"/">>)}
    IN  IF cands = {} THEN <<>>
        ELSE S[CHOOSE k \in cands : \A c \in cands : Len(c) <= Len(k)]

\* C23. Governing secret: every file Scan emits carries as CS the secret
\* mapped to its own path if there is one, else that of the nearest directory
\* above it that is in the map, else the root's or the empty string, whatever
\* the walk visited before the file.
C23_GoverningSecret ==
    \A j \in DOMAIN scan.allResults :
        scan.allResults[j].CS =
            Governing(scan.Secrets, FilepathJoin(inPath, scan.allResults[j].Path))

\* C24. Every read and every write of the Manifest's Entries map, by every
\* operation of the Manifest and by the drivers, is performed while the
\* goroutine holds the Manifest's mutex.
C24_EntriesUnderMutex ==
    \A t \in Callers : mu.tpc[t] = "entries" => mu.holder = t

\* Whether the output ends in the HMAC, under the key's HMAC key, of the bytes
\* before it.
EndsInValidTrailer(o, k) ==
    /\ Len(o) >= HMACSize
    /\ HmacEqual(SubSeq(o, Len(o) - HMACSize + 1, Len(o)),
                 HmacSum(shaSlice256(shaSlice256(k)), SubSeq(o, 1, Len(o) - HMACSize)))

C26_TailExcludingReader ==
    ter.pc = "reading" =>
        LET data == ter.src.data
            n == Len(data)
            keep == Min(n, ter.tailSize)
        IN  /\ Len(ter.got) <= n - keep
            /\ ter.got = SubSeq(data, 1, Len(ter.got))
            /\ ter.last.l <= ter.last.into
            /\ ter.eof =>
                  /\ ter.got = SubSeq(data, 1, n - keep)
                  /\ ter.src.tail = SubSeq(data, n - keep + 1, n)

C26_Witness ==
    /\ ter.eof
    /\ ter.tailSize = HMACSize
    /\ Len(ter.src.data) > ter.tailSize + 1
    /\ Cardinality(ter.sizes \ {0}) >= 2
    /\ ter.last = [into |-> 1, l |-> 0, err |-> EOF]

\* How many inputs of the channel have the non-nil result v, and how often v
\* is among the results.
PoolExpected(v) == Cardinality({j \in DOMAIN pool.inputs : fn(pool.inputs[j]) = v})
PoolCollected(rs, v) == Cardinality({j \in DOMAIN rs : rs[j] = v})

\* C27. Worker pool: fn is called at most once per input at any time; when
\* RunWorkers returns, fn was called exactly once per input, every call has
\* returned and every worker has exited, and what is returned is exactly the
\* non-nil results of the calls; as long as RunWorkers has not returned, the
\* sender or a worker or RunWorkers itself can take a step.
C27_WorkerPool ==
    pool.pc # "idle" =>
        /\ \A j \in DOMAIN pool.calls : pool.calls[j] <= 1
        /\ pool.pc = "returned" =>
              /\ \A j \in DOMAIN pool.calls : pool.calls[j] = 1
              /\ \A w \in Workers : pool.wpc[w] = "exited"
              /\ \A v \in {fn(x) : x \in PoolInputs} \ {Nil} :
                    PoolCollected(pool.returned, v) = PoolExpected(v)
              /\ \A j \in DOMAIN pool.returned : pool.returned[j] # Nil
        /\ pool.pc = "running" => ENABLED PoolNext

C27_Witness ==
    /\ pool.pc = "returned"
    /\ Len(pool.inputs) = MaxInputs
    /\ Len(pool.returned) = 2
    /\ pool.returned[1] = fn(pool.inputs[3])
    /\ pool.returned[2] = fn(pool.inputs[1])

\* C28. Restore fallback: once RestoreMain is past the loading of a manifest
\* file that is an intact plaintext manifest, of whatever size, the file was
\* loaded once, directly, without error, and the manifest's entries are the
\* entries of the file.
C28_RestoreFallback ==
    (/\ rmain.pc \in {"restore", "returned"}
     /\ rmain.file.format = "json"
     /\ Intact(rmain.file)) =>
        /\ rmain.loads = 1
        /\ rmain.Entries = LoadEntries(rmain.file.lines, EmptyMap).Entries
        /\ rmain.pc = "returned" /\ rmain.inIsDir => rmain.err = Nil

\* C29. A manifest file that was cut short or is neither a manifest nor an
\* archive is fatal at load time: RestoreMain never goes on to the entries
\* with it, and returns an error with no entry decrypted.
C29_FatalAtLoad ==
    (/\ rmain.pc \in {"restore", "returned"}
     /\ ~Intact(rmain.file)) =>
        /\ rmain.pc = "returned"
        /\ rmain.err # Nil
        /\ ~rmain.ranged
        /\ rmain.decrypted = {}

\* C30. Key size: once a Writer made with a key that is not exactly 32 bytes
\* has been refused by NewWriter or was used to encrypt, from NewWriter or
\* from a struct literal, an error was returned and no byte was written to
\* the output.
C30_KeySizeError ==
    (/\ path \in {"NewWriter", "literal"}
     /\ pc \in {"returned", "written"}
     /\ key.size # KeySize) =>
        /\ encErr \in {KeySizeIncorrect, KeySizeError}
        /\ \A j \in DOMAIN outs : outs[j] = <<>>

\* C31. CheckKey leaves the source at offset 0 on every return path, and on
\* success returns the length of the body, the source's length less the
\* trailer's.
C31_CheckKeyRewinds ==
    ck.pc = "returned" =>
        /\ ck.pos = 0
        /\ ck.err = Nil => ck.offset = Len(ck.source) - HMACSize

\* C32. When DecryptAndCheckKey has returned HMAC Invalid, every byte of the
\* buffer that held what was decrypted is zero.
C32_BufferZeroed ==
    (pc = "done" /\ path = "dack" /\ rdErr = HMACInvalid) =>
        \A j \in DOMAIN rdBuf.mem : rdBuf.mem[j] = 0

\* C33. Scan output set: when Scan has returned, it has emitted exactly one
\* result, with the path relative to the root, for each file under the root
\* that is not hidden, and none for a directory, a hidden file or a file below
\* a hidden directory.
C33_ScanOutputSet ==
    scan.pc = "returned" =>
        /\ {scan.allResults[j].Path : j \in DOMAIN scan.allResults} =
              {FilepathRel(scan.dir, f) : f \in {g \in scan.files : ~HiddenUnder(scan.dir, g)}}
        /\ \A j, k \in DOMAIN scan.allResults :
              scan.allResults[j].Path = scan.allResults[k].Path => j = k

\* C34. Directory restore: an entry whose blob does not exist is skipped and
\* the entries after it are still handled; any other failure of an entry ends
\* the restore with that entry's error, and no entry after it is opened,
\* created or restored. A restore that returns nil has restored every entry
\* whose blob exists and skipped the others.
C34_SkipMissingAbortOnError ==
    /\ rdir.pc # "idle" =>
          /\ \A j \in rdir.skipped : rdir.entries[j].state = "missing"
          /\ rdir.err # Nil =>
                /\ rdir.pc = "returned"
                /\ rdir.entries[rdir.failed].state \notin {"ok", "missing"}
                /\ \A j \in rdir.skipped \cup rdir.called \cup rdir.restored :
                      j <= rdir.failed
                /\ rdir.failed \notin rdir.restored
    /\ (rdir.pc = "returned" /\ rdir.err = Nil) =>
          /\ rdir.restored = {j \in DOMAIN rdir.entries : rdir.entries[j].state = "ok"}
          /\ rdir.skipped = {j \in DOMAIN rdir.entries : rdir.entries[j].state = "missing"}

C34_Witness ==
    /\ rdir.pc = "returned"
    /\ Len(rdir.entries) = 2
    /\ rdir.skipped = {1}
    /\ rdir.restored = {2}

\* C38. A call of restoreFile that fails the authentication of the blob leaves
\* the destination as it was: nothing is created, truncated or written.
C38_NothingAtDestination ==
    [][(rdir.err = Nil /\ rdir'.err = FileSignatureInvalid) =>
          rdir'.dest = rdir.dest]_vars

\* C39. Every file a directory restore creates or writes lies inside the
\* destination directory, whatever the paths of the entries.
C39_InsideDestination ==
    \A p \in rdir.touched : InsideDir(outPath, p)


\* C35: a scan result whose LocalHash is a key of the manifest is resolved to
\* the entry the manifest holds, with its Path, Key and HMAC, and its file
\* is never opened, however the workers interleave: the worker that called fn
\* for it holds or has appended the stored entry, and a Resolve that returns
\* entries returns it among them.
C35_ResolveCacheHit ==
    \A j \in DOMAIN pool.inputs :
        LET r == pool.inputs[j]
            stored == manifest[LocalHashSet(r.Path, r.CS, r.Info)]
        IN  ResolveHit(manifest, r) =>
                /\ r.Path \notin pool.opened
                /\ pool.calls[j] = 1 =>
                       \/ \E w \in Workers : pool.win[w] = j /\ pool.wval[w] = stored
                       \/ \E n \in DOMAIN pool.results : pool.results[n] = stored
                /\ (pool.pc = "resolved" /\ pool.err = Nil) =>
                       \E n \in DOMAIN entries : entries[n] = stored

\* Resolve has returned the stored entry of one file and a new entry for the
\* other, which it opened, and a different worker handled each.
C35_Witness ==
    /\ pool.pc = "resolved"
    /\ pool.err = Nil
    /\ Len(pool.inputs) = 2
    /\ ResolveHit(manifest, pool.inputs[1])
    /\ ~ResolveHit(manifest, pool.inputs[2])
    /\ pool.inputs[1].Path \in DOMAIN tree
    /\ tree[pool.inputs[1].Path].content = <<1>>
    /\ pool.opened = {pool.inputs[2].Path}
    /\ pool.win[1] # pool.win[2]


\* C36: a call of Resolve, Diff, GarbageCollectable, GetEntry,
\* FindEntryWithHMAC or Save leaves the Entries map as it found it, and no
\* call of Resolve changes the store; only Commit, Load and Init write
\* Entries.
C36_OnlyCommitLoadInitWrite ==
    [][/\ mpc' \in {"Resolve", "Diff", "GarbageCollectable", "GetEntry",
                    "FindEntryWithHMAC", "Save"} => manifest' = manifest
       /\ mpc' = "Resolve" => store' = store]_vars

\* Resolve has returned an entry it found in the manifest and one it made,
\* for a manifest that a Commit filled.
C36_Witness ==
    /\ mpc = "Resolve"
    /\ manifest # EmptyMap
    /\ \E a, b \in DOMAIN entries :
          /\ entries[a].LocalHash \in DOMAIN manifest
          /\ entries[b].LocalHash \notin DOMAIN manifest

\* C37: after any sequence of Init, Load and Commit, with any diffs and any
\* streams, every key of the Entries map is the LocalHash of the entry it
\* maps to.
C37_KeyIsLocalHash == \A h \in DOMAIN manifest : manifest[h].LocalHash = h

\* A Load of two lines has replaced a map that held an entry, and both of
\* its entries are in the map.
C37_Witness ==
    /\ mpc = "Load"
    /\ loaded.err = Nil
    /\ DOMAIN prior # {}
    /\ prior # manifest
    /\ Cardinality(DOMAIN manifest) = 2

====
